---- MODULE Spec2Model ----
(***************************************************************************)
(* Semantic transformation layer of pipefitter: the FNode model, the       *)
(* per-format semantics records, the TransformationEngine (registry,       *)
(* lift/lower conversion, compatibility check) and FormatAwareOperations.  *)
(*                                                                         *)
(* Representation.  An FNode is a record with the fields type, name,       *)
(* value, id, ns, label, and the OPTIONAL fields children, parents,        *)
(* attributes: an optional field that is undefined in the program is       *)
(* missing from the record's DOMAIN, an empty array is the empty sequence. *)
(* Primitive values and identifiers are strings; "undefined" stands for    *)
(* the JavaScript value undefined.  A Map is a function whose DOMAIN is    *)
(* the set of its keys.  A call that throws is recorded with status        *)
(* "threw".                                                                *)
(***************************************************************************)
EXTENDS Integers, Sequences, FiniteSets, TLC

VARIABLES registry, message, call, clock, builder,
          resources, extensions, pipeline

vars == <<registry, message, call, clock, builder,
          resources, extensions, pipeline>>

\* The variables of the semantic layer and those of the core classes
semanticVars == <<registry, message, call, clock, builder>>
coreVars == <<resources, extensions, pipeline>>

Undefined == "undefined"

\* ------------------------------------------------------------------------
\* FNodeType, SemanticRole, TransformationStrategy, FormatType
\* ------------------------------------------------------------------------
COLLECTION == "collection"
RECORD == "record"
FIELD == "field"
VALUE == "value"
ATTRIBUTES == "attributes"
COMMENT == "comment"
INSTRUCTION == "instruction"
CUSTOM == "custom"

FNodeType ==
  {COLLECTION, RECORD, FIELD, VALUE, ATTRIBUTES, COMMENT, INSTRUCTION, CUSTOM}

ROLE_ROOT == "root"
ROLE_CONTAINER == "container"
ROLE_ITEM == "item"
ROLE_PROPERTY == "property"
ROLE_VALUE == "value"
ROLE_METADATA == "metadata"
ROLE_ANNOTATION == "annotation"

SemanticRole ==
  {ROLE_ROOT, ROLE_CONTAINER, ROLE_ITEM, ROLE_PROPERTY, ROLE_VALUE,
   ROLE_METADATA, ROLE_ANNOTATION}

PRESERVE == "preserve"
CONVERT == "convert"
FLATTEN == "flatten"
PROMOTE == "promote"
DEMOTE == "demote"
DROP == "drop"

TransformationStrategy == {PRESERVE, CONVERT, FLATTEN, PROMOTE, DEMOTE, DROP}

FMT_JSON == "json"
FMT_XML == "xml"
FMT_CSV == "csv"
FMT_YAML == "yaml"
FMT_DATABASE == "database"
FMT_CUSTOM == "custom"

FormatType == {FMT_JSON, FMT_XML, FMT_CSV, FMT_YAML, FMT_DATABASE, FMT_CUSTOM}

\* ------------------------------------------------------------------------
\* FNode helpers
\* ------------------------------------------------------------------------
HasChildren(n) == "children" \in DOMAIN n
HasParents(n) == "parents" \in DOMAIN n
HasAttributes(n) == "attributes" \in DOMAIN n

\* node.children || [] and node.attributes || []
ChildrenOrEmpty(n) == IF HasChildren(n) THEN n.children ELSE <<>>
AttributesOrEmpty(n) == IF HasAttributes(n) THEN n.attributes ELSE <<>>

\* createFNode(type, name, value): a node without children and attributes
createFNode(type, name, value) ==
  [type |-> type, name |-> name, value |-> value,
   id |-> Undefined, ns |-> Undefined, label |-> Undefined]

\* { ...node, children: kids }
WithChildren(n, kids) ==
  [k \in DOMAIN n \cup {"children"} |->
     IF k = "children" THEN kids ELSE n[k]]

\* { ...node, attributes: attrs }
WithAttributes(n, attrs) ==
  [k \in DOMAIN n \cup {"attributes"} |->
     IF k = "attributes" THEN attrs ELSE n[k]]

\* { ...node, parents: ps }
WithParents(n, ps) ==
  [k \in DOMAIN n \cup {"parents"} |->
     IF k = "parents" THEN ps ELSE n[k]]

\* Mutant: a key without an entry gives undefined, no fallback
MapGetOr_noFallback(m, key, fallback) ==
  IF key \in DOMAIN m THEN m[key] ELSE Undefined

\* Map.get(key) || fallback
MapGetOr(m, key, fallback) == IF key \in DOMAIN m THEN m[key] ELSE fallback

\* Array.prototype.find: the first element satisfying Test, or none.
\* The result is a sequence of length 0 (undefined) or 1 (the element).
FindFirstIndex(s, Test(_)) ==
  IF \E i \in 1..Len(s) : Test(s[i])
    THEN CHOOSE i \in 1..Len(s) :
           Test(s[i]) /\ \A j \in 1..(i - 1) : ~Test(s[j])
    ELSE 0

\* ------------------------------------------------------------------------
\* Format semantics records
\* ------------------------------------------------------------------------
JSON_SEMANTICS ==
  [format |-> FMT_JSON,
   typeToRole |-> (COLLECTION :> ROLE_CONTAINER) @@ (RECORD :> ROLE_ITEM)
                  @@ (FIELD :> ROLE_PROPERTY) @@ (VALUE :> ROLE_VALUE)
                  @@ (COMMENT :> ROLE_ANNOTATION),
   roleToType |-> (ROLE_ROOT :> RECORD) @@ (ROLE_CONTAINER :> COLLECTION)
                  @@ (ROLE_ITEM :> RECORD) @@ (ROLE_PROPERTY :> FIELD)
                  @@ (ROLE_VALUE :> VALUE),
   transformationRules |-> [collections |-> PRESERVE, records |-> PRESERVE,
                            attributes |-> CONVERT, comments |-> DROP],
   queryStrategy |-> FMT_JSON]

CSV_SEMANTICS ==
  [format |-> FMT_CSV,
   typeToRole |-> (COLLECTION :> ROLE_ROOT) @@ (RECORD :> ROLE_ITEM)
                  @@ (FIELD :> ROLE_PROPERTY) @@ (VALUE :> ROLE_VALUE),
   roleToType |-> (ROLE_ROOT :> COLLECTION) @@ (ROLE_CONTAINER :> COLLECTION)
                  @@ (ROLE_ITEM :> RECORD) @@ (ROLE_PROPERTY :> FIELD)
                  @@ (ROLE_VALUE :> VALUE),
   transformationRules |-> [collections |-> PRESERVE, records |-> PRESERVE,
                            attributes |-> PROMOTE, comments |-> PROMOTE],
   queryStrategy |-> FMT_CSV]

XML_SEMANTICS ==
  [format |-> FMT_XML,
   typeToRole |-> (RECORD :> ROLE_ITEM) @@ (COLLECTION :> ROLE_CONTAINER)
                  @@ (FIELD :> ROLE_PROPERTY) @@ (VALUE :> ROLE_VALUE)
                  @@ (ATTRIBUTES :> ROLE_METADATA)
                  @@ (COMMENT :> ROLE_ANNOTATION)
                  @@ (INSTRUCTION :> ROLE_METADATA),
   roleToType |-> (ROLE_ROOT :> RECORD) @@ (ROLE_CONTAINER :> COLLECTION)
                  @@ (ROLE_ITEM :> RECORD) @@ (ROLE_PROPERTY :> FIELD)
                  @@ (ROLE_VALUE :> VALUE) @@ (ROLE_METADATA :> ATTRIBUTES)
                  @@ (ROLE_ANNOTATION :> COMMENT),
   transformationRules |-> [collections |-> PRESERVE, records |-> PRESERVE,
                            attributes |-> PRESERVE, comments |-> PRESERVE],
   queryStrategy |-> FMT_XML]

\* ------------------------------------------------------------------------
\* TransformationEngine: lift (toSemantic) and lower (fromSemantic)
\* ------------------------------------------------------------------------
\* Mutant: a kind without an entry is read as a Property
RECURSIVE toSemantic_fallbackProperty(_, _)
toSemantic_fallbackProperty(node, semantics) ==
  LET role == MapGetOr(semantics.typeToRole, node.type, ROLE_PROPERTY)
      base == [role |-> role, name |-> node.name, value |-> node.value,
               id |-> node.id, ns |-> node.ns, label |-> node.label]
      c == IF HasChildren(node)
             THEN WithChildren(base,
                    [i \in 1..Len(node.children) |->
                       toSemantic_fallbackProperty(node.children[i], semantics)])
             ELSE base
      p == IF HasParents(node)
             THEN WithParents(c,
                    [i \in 1..Len(node.parents) |->
                       toSemantic_fallbackProperty(node.parents[i], semantics)])
             ELSE c
  IN  IF HasAttributes(node)
        THEN WithAttributes(p,
               [i \in 1..Len(node.attributes) |->
                  toSemantic_fallbackProperty(node.attributes[i], semantics)])
        ELSE p

RECURSIVE toSemantic(_, _)
toSemantic(node, semantics) ==
  LET role == MapGetOr(semantics.typeToRole, node.type, ROLE_VALUE)
      base == [role |-> role, name |-> node.name, value |-> node.value,
               id |-> node.id, ns |-> node.ns, label |-> node.label]
      c == IF HasChildren(node)
             THEN WithChildren(base,
                    [i \in 1..Len(node.children) |->
                       toSemantic(node.children[i], semantics)])
             ELSE base
      p == IF HasParents(node)
             THEN WithParents(c,
                    [i \in 1..Len(node.parents) |->
                       toSemantic(node.parents[i], semantics)])
             ELSE c
  IN  IF HasAttributes(node)
        THEN WithAttributes(p,
               [i \in 1..Len(node.attributes) |->
                  toSemantic(node.attributes[i], semantics)])
        ELSE p

\* Mutant: items follow the comments strategy
getTransformationStrategy_itemsAsComments(role, semantics) ==
  CASE role = ROLE_CONTAINER -> semantics.transformationRules.collections
    [] role = ROLE_ITEM -> semantics.transformationRules.comments
    [] role = ROLE_METADATA -> semantics.transformationRules.attributes
    [] role = ROLE_ANNOTATION -> semantics.transformationRules.comments
    [] OTHER -> PRESERVE

\* Mutant: annotations follow the attributes strategy
getTransformationStrategy_commentsAsAttributes(role, semantics) ==
  CASE role = ROLE_CONTAINER -> semantics.transformationRules.collections
    [] role = ROLE_ITEM -> semantics.transformationRules.records
    [] role = ROLE_METADATA -> semantics.transformationRules.attributes
    [] role = ROLE_ANNOTATION -> semantics.transformationRules.attributes
    [] OTHER -> PRESERVE

getTransformationStrategy(role, semantics) ==
  CASE role = ROLE_CONTAINER -> semantics.transformationRules.collections
    [] role = ROLE_ITEM -> semantics.transformationRules.records
    [] role = ROLE_METADATA -> semantics.transformationRules.attributes
    [] role = ROLE_ANNOTATION -> semantics.transformationRules.comments
    [] OTHER -> PRESERVE

RECURSIVE fromSemantic(_, _)
RECURSIVE applyTransformationRules(_, _)
RECURSIVE applyAttributeTransformationRules(_, _)

\* The result is <<>> for undefined, <<list>> for a list of attribute nodes.
applyAttributeTransformationRules(attributes, semantics) ==
  IF Len(attributes) = 0 THEN <<>>
  ELSE
    LET strategy == semantics.transformationRules.attributes
        rebuilt == [i \in 1..Len(attributes) |->
                      fromSemantic(attributes[i], semantics)]
    IN  CASE strategy = PRESERVE -> <<rebuilt>>
          [] strategy = CONVERT ->
               <<[i \in 1..Len(attributes) |->
                    [rebuilt[i] EXCEPT !.type = FIELD]]>>
          [] strategy = DROP -> <<>>
          [] OTHER -> <<rebuilt>>

\* Mutant: the children of a flattened child are appended after its siblings
applyTransformationRules_flattenLast(children, semantics) ==
  IF Len(children) = 0 THEN <<>>
  ELSE
    LET child == Head(children)
        strategy == getTransformationStrategy(child.role, semantics)
        rest == applyTransformationRules(Tail(children), semantics)
    IN  CASE strategy = FLATTEN ->
               rest \o (IF HasChildren(child)
                          THEN applyTransformationRules(child.children,
                                                        semantics)
                          ELSE <<>>)
          [] strategy = DROP -> rest
          [] strategy = PROMOTE ->
               <<[fromSemantic(child, semantics) EXCEPT !.type = COMMENT]>>
                 \o rest
          [] strategy = DEMOTE ->
               <<[fromSemantic(child, semantics) EXCEPT !.type = ATTRIBUTES]>>
                 \o rest
          [] OTHER -> <<fromSemantic(child, semantics)>> \o rest

applyTransformationRules(children, semantics) ==
  IF Len(children) = 0 THEN <<>>
  ELSE
    LET child == Head(children)
        strategy == getTransformationStrategy(child.role, semantics)
        produced ==
          CASE strategy = PRESERVE -> <<fromSemantic(child, semantics)>>
            [] strategy = CONVERT -> <<fromSemantic(child, semantics)>>
            [] strategy = FLATTEN ->
                 IF HasChildren(child)
                   THEN applyTransformationRules(child.children, semantics)
                   ELSE <<>>
            [] strategy = PROMOTE ->
                 <<[fromSemantic(child, semantics) EXCEPT !.type = COMMENT]>>
            [] strategy = DEMOTE ->
                 <<[fromSemantic(child, semantics)
                      EXCEPT !.type = ATTRIBUTES]>>
            [] strategy = DROP -> <<>>
            [] OTHER -> <<fromSemantic(child, semantics)>>
    IN  produced \o applyTransformationRules(Tail(children), semantics)

fromSemantic(semantic, semantics) ==
  LET targetType == MapGetOr(semantics.roleToType, semantic.role, VALUE)
      transformedChildren ==
        applyTransformationRules(ChildrenOrEmpty(semantic), semantics)
      transformedAttributes ==
        applyAttributeTransformationRules(AttributesOrEmpty(semantic),
                                          semantics)
      base == [type |-> targetType, name |-> semantic.name,
               value |-> semantic.value, id |-> semantic.id,
               ns |-> semantic.ns, label |-> semantic.label,
               children |-> transformedChildren]
      p == IF HasParents(semantic)
             THEN WithParents(base,
                    [i \in 1..Len(semantic.parents) |->
                       fromSemantic(semantic.parents[i], semantics)])
             ELSE base
  IN  IF transformedAttributes = <<>>
        THEN p
        ELSE WithAttributes(p, transformedAttributes[1])

\* transform(node, sourceFormat, targetFormat) once both lookups succeeded
transform(node, sourceSemantics, targetSemantics) ==
  fromSemantic(toSemantic(node, sourceSemantics), targetSemantics)

\* ------------------------------------------------------------------------
\* Query strategies (findItems, extractValue, navigatePath) of the records
\* ------------------------------------------------------------------------
\* Path segments are strings.  /^\d+$/ and parseInt are given by the table
\* of the all-digit segments in use, startsWith('@') and substring(1) by
\* the table of the "@"-prefixed ones.
ParseInt == ("0" :> 0) @@ ("1" :> 1) @@ ("2" :> 2) @@ ("3" :> 3) @@ ("01" :> 1)
IsAllDigits(segment) == segment \in DOMAIN ParseInt
Substring1 == ("@id" :> "id") @@ ("@name" :> "name") @@ ("@" :> "")
StartsWithAt(segment) == segment \in DOMAIN Substring1

findItems(semantics, node) ==
  CASE semantics.queryStrategy = FMT_JSON ->
         SelectSeq(ChildrenOrEmpty(node),
                   LAMBDA child : child.type = RECORD
                                  \/ child.type = COLLECTION)
    [] semantics.queryStrategy = FMT_CSV ->
         SelectSeq(ChildrenOrEmpty(node), LAMBDA child : child.name = "row")
    [] semantics.queryStrategy = FMT_XML ->
         SelectSeq(ChildrenOrEmpty(node), LAMBDA child : child.type = RECORD)

\* node.children?.find(child => child.name === key)?.value
ChildValue(node, key) ==
  LET i == FindFirstIndex(ChildrenOrEmpty(node),
                          LAMBDA child : child.name = key)
  IN  IF i = 0 THEN Undefined ELSE node.children[i].value

extractValue(semantics, node, key) ==
  CASE semantics.queryStrategy = FMT_XML ->
         LET a == FindFirstIndex(AttributesOrEmpty(node),
                                 LAMBDA attr : attr.name = key)
             attrValue == IF a = 0 THEN Undefined
                          ELSE node.attributes[a].value
         IN  IF attrValue # Undefined THEN attrValue
             ELSE ChildValue(node, key)
    [] OTHER -> ChildValue(node, key)

\* The navigation results are <<>> for undefined and <<node>> for a node.
\* Mutant: a segment that names no child is passed over
RECURSIVE navigateJsonPath_skipsMissing(_, _)
navigateJsonPath_skipsMissing(current, path) ==
  IF path = <<>> THEN <<current>>
  ELSE IF ~HasChildren(current) THEN <<>>
  ELSE LET next == FindFirstIndex(current.children,
                                  LAMBDA child : child.name = Head(path))
       IN  IF next = 0
             THEN navigateJsonPath_skipsMissing(current, Tail(path))
             ELSE navigateJsonPath_skipsMissing(current.children[next],
                                                Tail(path))

RECURSIVE navigateJsonPath(_, _)
navigateJsonPath(current, path) ==
  IF path = <<>> THEN <<current>>
  ELSE IF ~HasChildren(current) THEN <<>>
  ELSE LET next == FindFirstIndex(current.children,
                                  LAMBDA child : child.name = Head(path))
       IN  IF next = 0 THEN <<>>
           ELSE navigateJsonPath(current.children[next], Tail(path))

RECURSIVE navigateCsvPath(_, _)
navigateCsvPath(current, path) ==
  IF path = <<>> THEN <<current>>
  ELSE IF ~HasChildren(current) THEN <<>>
  ELSE
    LET segment == Head(path)
    IN  IF segment = "row"
          THEN LET next == FindFirstIndex(current.children,
                                          LAMBDA child : child.name = "row")
               IN  IF next = 0 THEN <<>>
                   ELSE navigateCsvPath(current.children[next], Tail(path))
        ELSE IF IsAllDigits(segment)
          THEN LET index == ParseInt[segment]
                   rows == SelectSeq(current.children,
                                     LAMBDA child : child.name = "row")
               IN  IF index >= Len(rows) THEN <<>>
                   ELSE navigateCsvPath(rows[index + 1], Tail(path))
        ELSE LET next == FindFirstIndex(current.children,
                                        LAMBDA child : child.name = segment)
             IN  IF next = 0 THEN <<>>
                 ELSE navigateCsvPath(current.children[next], Tail(path))

RECURSIVE navigateXmlPath(_, _)
navigateXmlPath(current, path) ==
  IF path = <<>> THEN <<current>>
  ELSE IF ~HasChildren(current) THEN <<>>
  ELSE
    LET segment == Head(path)
    IN  IF StartsWithAt(segment)
          THEN LET attrName == Substring1[segment]
                   a == FindFirstIndex(AttributesOrEmpty(current),
                                       LAMBDA attr : attr.name = attrName)
               IN  IF a = 0 THEN <<>> ELSE <<current.attributes[a]>>
        ELSE LET next == FindFirstIndex(current.children,
                                        LAMBDA child : child.name = segment)
             IN  IF next = 0 THEN <<>>
                 ELSE navigateXmlPath(current.children[next], Tail(path))

navigatePath(semantics, node, path) ==
  CASE semantics.queryStrategy = FMT_JSON -> navigateJsonPath(node, path)
    [] semantics.queryStrategy = FMT_CSV -> navigateCsvPath(node, path)
    [] semantics.queryStrategy = FMT_XML -> navigateXmlPath(node, path)

\* ------------------------------------------------------------------------
\* TransformationEngine: registry, compatibility
\* ------------------------------------------------------------------------
\* Mutant: an identifier that has an entry keeps it
registrySet_keepsFirst(reg, semantics) ==
  [f \in DOMAIN reg \cup {semantics.format} |->
     IF f \in DOMAIN reg THEN reg[f] ELSE semantics]

\* semanticsRegistry.set(semantics.format, semantics)
registrySet(reg, semantics) ==
  [f \in DOMAIN reg \cup {semantics.format} |->
     IF f = semantics.format THEN semantics ELSE reg[f]]

\* getSemantics throws exactly when the format has no entry
IsRegistered(reg, format) == format \in DOMAIN reg

Range(f) == {f[x] : x \in DOMAIN f}

CoreRoles == {ROLE_CONTAINER, ROLE_ITEM, ROLE_VALUE}

\* Mutant: a failed lookup counts as compatible
isCompatible_defaultsTrue(reg, sourceFormat, targetFormat) ==
  IF IsRegistered(reg, sourceFormat) /\ IsRegistered(reg, targetFormat)
    THEN LET sourceRoles == Range(reg[sourceFormat].typeToRole)
             targetRoles == DOMAIN reg[targetFormat].roleToType
         IN  \A role \in CoreRoles :
               role \notin sourceRoles \/ role \in targetRoles
    ELSE TRUE

\* Mutant: every core role is required of the target, whatever the source
isCompatible_targetOnly(reg, sourceFormat, targetFormat) ==
  IF IsRegistered(reg, sourceFormat) /\ IsRegistered(reg, targetFormat)
    THEN LET targetRoles == DOMAIN reg[targetFormat].roleToType
         IN  \A role \in CoreRoles : role \in targetRoles
    ELSE FALSE

\* Mutant: one covered core role is enough (some instead of every)
isCompatible_someRole(reg, sourceFormat, targetFormat) ==
  IF IsRegistered(reg, sourceFormat) /\ IsRegistered(reg, targetFormat)
    THEN LET sourceRoles == Range(reg[sourceFormat].typeToRole)
             targetRoles == DOMAIN reg[targetFormat].roleToType
         IN  \E role \in CoreRoles :
               role \notin sourceRoles \/ role \in targetRoles
    ELSE FALSE

isCompatible(reg, sourceFormat, targetFormat) ==
  IF IsRegistered(reg, sourceFormat) /\ IsRegistered(reg, targetFormat)
    THEN LET sourceRoles == Range(reg[sourceFormat].typeToRole)
             targetRoles == DOMAIN reg[targetFormat].roleToType
         IN  \A role \in CoreRoles :
               role \notin sourceRoles \/ role \in targetRoles
    ELSE FALSE

getSupportedFormats(reg) == DOMAIN reg

\* { ...metadata, [namespace]: entry }
MetadataWith(metadata, namespace, entry) ==
  [k \in DOMAIN metadata \cup {namespace} |->
     IF k = namespace THEN entry ELSE metadata[k]]

\* Mutant: the metadata of the result holds the provenance record only
transformMessage_replacesMetadata(msg, sourceSemantics, targetSemantics, now) ==
  [data |-> transform(msg.data, sourceSemantics, targetSemantics),
   metadata |-> [transformation |->
                   [sourceFormat |-> sourceSemantics.format,
                    targetFormat |-> targetSemantics.format,
                    transformedAt |-> now]],
   context |-> msg.context]

transformMessage(msg, sourceSemantics, targetSemantics, now) ==
  [data |-> transform(msg.data, sourceSemantics, targetSemantics),
   metadata |-> MetadataWith(msg.metadata, "transformation",
                  [sourceFormat |-> sourceSemantics.format,
                   targetFormat |-> targetSemantics.format,
                   transformedAt |-> now]),
   context |-> msg.context]

\* ------------------------------------------------------------------------
\* Callbacks handed to the operations: predicates, transformers, comparators
\* and key extractors, named by strings and evaluated on one item.
\* ------------------------------------------------------------------------
Predicates == {"isAl", "hasName", "never"}

\* (user) => operations.extractValue(user, 'name', format) === 'Al', etc.
applyPredicate(predicate, semantics, item) ==
  CASE predicate = "isAl" -> extractValue(semantics, item, "name") = "Al"
    [] predicate = "hasName" ->
         extractValue(semantics, item, "name") # Undefined
    [] predicate = "never" -> FALSE

Transformers == {"identity", "rename", "displayName"}

\* name + ' (' + department + ')' of the demo's transformer: the two values
\* are read with the json record; an undefined value reads "undefined"
displayNameOf(item) ==
  extractValue(JSON_SEMANTICS, item, "name") \o " ("
    \o extractValue(JSON_SEMANTICS, item, "department") \o ")"

\* (item) => item,   (item) => ({ ...item, name: 'entry' })   and the
\* transformer of the demo, (user) => ({ ...user, children:
\* [...(user.children || []), createFNode(FIELD, 'displayName', ...)] })
applyTransformer(transformer, item) ==
  CASE transformer = "identity" -> item
    [] transformer = "rename" -> [item EXCEPT !.name = "entry"]
    [] transformer = "displayName" ->
         WithChildren(item,
           ChildrenOrEmpty(item)
             \o <<createFNode(FIELD, "displayName", displayNameOf(item))>>)

KeyExtractors == {"byName", "byType"}

\* The values || passes over: undefined and the empty string, the falsy
\* ones among the values of the nodes
Falsy(v) == v = Undefined \/ v = ""

\* (user) => operations.extractValue(user, 'name', format) || 'Unknown'
applyKeyExtractor(keyExtractor, semantics, item) ==
  CASE keyExtractor = "byName" ->
         LET v == extractValue(semantics, item, "name")
         IN  IF Falsy(v) THEN "Unknown" ELSE v
    [] keyExtractor = "byType" -> item.type

Comparators == {"byNameAsc", "byNameDesc"}

\* Rank of the strings compared by localeCompare; "undefined" is what
\* localeCompare makes of an argument that is undefined
StringRank == ("" :> 0) @@ ("Al" :> 1) @@ ("Bo" :> 2) @@ ("undefined" :> 3)

\* nameA.localeCompare(nameB): a TypeError when the receiver is undefined,
\* else negative, zero or positive
localeCompare(nameA, nameB) ==
  IF nameA = Undefined THEN [status |-> "threw", error |-> "TypeError"]
  ELSE [status |-> "returned",
        value |-> StringRank[nameA]
                    - StringRank[IF nameB = Undefined THEN "undefined"
                                 ELSE nameB]]

\* (a, b) => nameA.localeCompare(nameB) of the demo, and the same
\* comparator with the two names exchanged
applyComparator(comparator, semantics, a, b) ==
  LET nameA == extractValue(semantics, a, "name")
      nameB == extractValue(semantics, b, "name")
  IN  CASE comparator = "byNameAsc" -> localeCompare(nameA, nameB)
        [] comparator = "byNameDesc" -> localeCompare(nameB, nameA)

\* ------------------------------------------------------------------------
\* Array helpers: slice, sort
\* ------------------------------------------------------------------------
\* The value of F at e, e evaluated once
Then(e, F(_)) == CHOOSE r \in {F(x) : x \in {e}} : TRUE

Min(a, b) == IF a < b THEN a ELSE b
Max(a, b) == IF a > b THEN a ELSE b

\* Relative index of Array.prototype.slice: negative counts from the end
RelativeIndex(k, len) == IF k < 0 THEN Max(len + k, 0) ELSE Min(k, len)

\* items.slice(start, end) with zero-based start and exclusive end
Slice(s, start, end) ==
  LET from == RelativeIndex(start, Len(s))
      to == RelativeIndex(end, Len(s))
  IN  IF from >= to THEN <<>> ELSE SubSeq(s, from + 1, to)

Reverse(s) == [i \in 1..Len(s) |-> s[Len(s) + 1 - i]]

\* Array.prototype.sort calls the comparator in the order of the engine.
\* The engine of the build sorts an array of fewer than 32 elements in two
\* phases.  First it takes the longest run at the front: the second element
\* is compared with the first, then each element with the one before it
\* while the order (strictly descending, or not descending) goes on; a
\* descending run is reversed.  The length of the run from position idx on
\* (one-based), or the error of the comparator:
RECURSIVE CountRun(_, _, _, _, _)
CountRun(arr, idx, isDescending, comparator, semantics) ==
  IF idx > Len(arr) THEN [status |-> "returned", value |-> idx - 1]
  ELSE LET order == applyComparator(comparator, semantics,
                                    arr[idx], arr[idx - 1])
       IN  IF order.status = "threw" THEN order
           ELSE IF isDescending /\ order.value >= 0
             THEN [status |-> "returned", value |-> idx - 1]
           ELSE IF ~isDescending /\ order.value < 0
             THEN [status |-> "returned", value |-> idx - 1]
           ELSE CountRun(arr, idx + 1, isDescending, comparator, semantics)

\* Then each element after the run is the pivot of a binary search in the
\* sorted front: the comparator gets the pivot first.  The zero-based place
\* of the pivot between left and right, or the error of the comparator:
RECURSIVE BinarySearch(_, _, _, _, _, _)
BinarySearch(arr, pivot, left, right, comparator, semantics) ==
  IF left >= right THEN [status |-> "returned", value |-> left]
  ELSE LET mid == left + ((right - left) \div 2)
           order == applyComparator(comparator, semantics, pivot, arr[mid + 1])
       IN  IF order.status = "threw" THEN order
           ELSE IF order.value < 0
             THEN BinarySearch(arr, pivot, left, mid, comparator, semantics)
           ELSE BinarySearch(arr, pivot, mid + 1, right, comparator, semantics)

\* Binary insertion of the elements from position start on (one-based)
RECURSIVE BinaryInsertionSort(_, _, _, _)
BinaryInsertionSort(arr, start, comparator, semantics) ==
  IF start > Len(arr) THEN [status |-> "returned", value |-> arr]
  ELSE LET pivot == arr[start]
           place == BinarySearch(arr, pivot, 0, start - 1,
                                 comparator, semantics)
       IN  IF place.status = "threw" THEN place
           ELSE BinaryInsertionSort(
                  SubSeq(arr, 1, place.value) \o <<pivot>>
                    \o SubSeq(arr, place.value + 1, start - 1)
                    \o SubSeq(arr, start + 1, Len(arr)),
                  start + 1, comparator, semantics)

\* [...items].sort(comparator): the sorted copy, or the error the
\* comparator threw; an array of fewer than two elements is not compared
ArraySort(s, comparator, semantics) ==
  IF Len(s) < 2 THEN [status |-> "returned", value |-> s]
  ELSE LET first == applyComparator(comparator, semantics, s[2], s[1])
       IN  IF first.status = "threw" THEN first
           ELSE LET isDescending == first.value < 0
                    run == CountRun(s, 3, isDescending, comparator, semantics)
                IN  IF run.status = "threw" THEN run
                    ELSE BinaryInsertionSort(
                           IF isDescending
                             THEN Reverse(SubSeq(s, 1, run.value))
                                  \o SubSeq(s, run.value + 1, Len(s))
                             ELSE s,
                           run.value + 1, comparator, semantics)

\* ------------------------------------------------------------------------
\* FormatAwareOperations
\* ------------------------------------------------------------------------
\* Mutant: no format renames the items
reconstructWithItems_keepsNames(originalData, items, format) ==
  WithChildren(originalData, items)

\* Mutant: the items are appended to the children the container had
reconstructWithItems_appends(originalData, items, format) ==
  IF format = FMT_CSV
    THEN WithChildren(originalData,
           ChildrenOrEmpty(originalData)
             \o [i \in 1..Len(items) |-> [items[i] EXCEPT !.name = "row"]])
    ELSE WithChildren(originalData, ChildrenOrEmpty(originalData) \o items)

reconstructWithItems(originalData, items, format) ==
  IF format = FMT_CSV
    THEN WithChildren(originalData,
           [i \in 1..Len(items) |-> [items[i] EXCEPT !.name = "row"]])
    ELSE WithChildren(originalData, items)

\* { ...message, data: newData, metadata: { ...metadata, processing } }
WithProcessing(msg, newData, processing) ==
  [data |-> newData,
   metadata |-> MetadataWith(msg.metadata, "processing", processing),
   context |-> msg.context]

find(msg, predicate, semantics) ==
  SelectSeq(findItems(semantics, msg.data),
            LAMBDA item : applyPredicate(predicate, semantics, item))

filter(msg, predicate, semantics, now) ==
  LET items == findItems(semantics, msg.data)
      filtered == SelectSeq(items,
                    LAMBDA item : applyPredicate(predicate, semantics, item))
      newData == reconstructWithItems(msg.data, filtered, semantics.format)
  IN  WithProcessing(msg, newData,
        [operation |-> "filter", originalCount |-> Len(items),
         filteredCount |-> Len(filtered), timestamp |-> now])

\* map(message, mapper, format) with the key extractors as mappers
map(msg, mapper, semantics) ==
  LET items == findItems(semantics, msg.data)
  IN  [i \in 1..Len(items) |-> applyKeyExtractor(mapper, semantics, items[i])]

\* FormatAwareOperations.transform
transformItems(msg, transformer, semantics, now) ==
  LET items == findItems(semantics, msg.data)
      transformedItems ==
        [i \in 1..Len(items) |-> applyTransformer(transformer, items[i])]
      newData == reconstructWithItems(msg.data, transformedItems,
                                      semantics.format)
  IN  WithProcessing(msg, newData,
        [operation |-> "transform", itemCount |-> Len(transformedItems),
         timestamp |-> now])

\* The loop of groupBy over items[from..], groups being the Map so far
RECURSIVE groupByLoop(_, _, _, _)
groupByLoop(items, groups, keyExtractor, semantics) ==
  IF items = <<>> THEN groups
  ELSE
    LET item == Head(items)
        key == applyKeyExtractor(keyExtractor, semantics, item)
        withKey == IF key \in DOMAIN groups THEN groups
                   ELSE [k \in DOMAIN groups \cup {key} |->
                           IF k = key THEN <<>> ELSE groups[k]]
        pushed == [withKey EXCEPT ![key] = Append(@, item)]
    IN  groupByLoop(Tail(items), pushed, keyExtractor, semantics)

\* Mutant: the loop starts at the second item
groupBy_skipsFirst(msg, keyExtractor, semantics) ==
  LET items == findItems(semantics, msg.data)
  IN  groupByLoop(IF items = <<>> THEN <<>> ELSE Tail(items), <<>>,
                  keyExtractor, semantics)

groupBy(msg, keyExtractor, semantics) ==
  groupByLoop(findItems(semantics, msg.data), <<>>, keyExtractor, semantics)

\* reduce with (acc, current, index) => acc + 1 + index
RECURSIVE reduceLoop(_, _, _)
reduceLoop(items, index, acc) ==
  IF index >= Len(items) THEN acc
  ELSE reduceLoop(items, index + 1, acc + 1 + index)

reduce(msg, initialValue, semantics) ==
  reduceLoop(findItems(semantics, msg.data), 0, initialValue)

\* items.find(predicate): <<>> for undefined, <<item>> otherwise
findFirst(msg, predicate, semantics) ==
  LET items == findItems(semantics, msg.data)
      i == FindFirstIndex(items,
             LAMBDA item : applyPredicate(predicate, semantics, item))
  IN  IF i = 0 THEN <<>> ELSE <<items[i]>>

some(msg, predicate, semantics) ==
  LET items == findItems(semantics, msg.data)
  IN  \E i \in 1..Len(items) : applyPredicate(predicate, semantics, items[i])

every(msg, predicate, semantics) ==
  LET items == findItems(semantics, msg.data)
  IN  \A i \in 1..Len(items) : applyPredicate(predicate, semantics, items[i])

\* Mutant: the optional predicate is ignored
count_ignoresPredicate(msg, semantics, predicate) ==
  Len(findItems(semantics, msg.data))

\* predicate = Undefined when the optional argument is not given
count(msg, semantics, predicate) ==
  LET items == findItems(semantics, msg.data)
  IN  IF predicate # Undefined
        THEN Len(SelectSeq(items,
               LAMBDA item : applyPredicate(predicate, semantics, item)))
        ELSE Len(items)

\* sort throws what the comparator throws
sortThrows(msg, comparator, semantics) ==
  ArraySort(findItems(semantics, msg.data), comparator, semantics).status
    = "threw"

\* sort when the comparator does not throw
sort(msg, comparator, semantics, now) ==
  Then(ArraySort(findItems(semantics, msg.data), comparator, semantics).value,
       LAMBDA sortedItems :
         WithProcessing(msg,
           reconstructWithItems(msg.data, sortedItems, semantics.format),
           [operation |-> "sort", itemCount |-> Len(sortedItems),
            timestamp |-> now]))

\* Mutant: the slice ends one item late
take_oneMore(msg, n, semantics, now) ==
  LET items == findItems(semantics, msg.data)
      takenItems == Slice(items, 0, n + 1)
      newData == reconstructWithItems(msg.data, takenItems, semantics.format)
  IN  WithProcessing(msg, newData,
        [operation |-> "take", originalCount |-> Len(items),
         takenCount |-> Len(takenItems), timestamp |-> now])

take(msg, n, semantics, now) ==
  LET items == findItems(semantics, msg.data)
      takenItems == Slice(items, 0, n)
      newData == reconstructWithItems(msg.data, takenItems, semantics.format)
  IN  WithProcessing(msg, newData,
        [operation |-> "take", originalCount |-> Len(items),
         takenCount |-> Len(takenItems), timestamp |-> now])

skip(msg, n, semantics, now) ==
  LET items == findItems(semantics, msg.data)
      remainingItems == Slice(items, n, Len(items))
      newData == reconstructWithItems(msg.data, remainingItems,
                                      semantics.format)
  IN  WithProcessing(msg, newData,
        [operation |-> "skip", originalCount |-> Len(items),
         skippedCount |-> n, remainingCount |-> Len(remainingItems),
         timestamp |-> now])

\* ------------------------------------------------------------------------
\* FormatAwareQuery: the object holds message and format; semantics is the
\* record getSemantics(format) returns inside the operation called
\* ------------------------------------------------------------------------
\* FormatAwareOperations.query
query(msg, format) == [message |-> msg, format |-> format]

queryFilter(q, predicate, semantics, now) ==
  [q EXCEPT !.message = filter(q.message, predicate, semantics, now)]

\* Mutant: the builder keeps its envelope
queryTransform_skipped(q, transformer, semantics, now) == q

queryTransform(q, transformer, semantics, now) ==
  [q EXCEPT !.message = transformItems(q.message, transformer, semantics, now)]

querySort(q, comparator, semantics, now) ==
  [q EXCEPT !.message = sort(q.message, comparator, semantics, now)]

\* Mutant: the call resets the format of the builder
queryTake_resetsFormat(q, n, semantics, now) ==
  [message |-> take(q.message, n, semantics, now), format |-> FMT_JSON]

queryTake(q, n, semantics, now) ==
  [q EXCEPT !.message = take(q.message, n, semantics, now)]

querySkip(q, n, semantics, now) ==
  [q EXCEPT !.message = skip(q.message, n, semantics, now)]

queryExecute(q) == q.message

queryMap(q, mapper, semantics) == map(q.message, mapper, semantics)

queryCount(q, semantics, predicate) == count(q.message, semantics, predicate)

queryGroupBy(q, keyExtractor, semantics) ==
  groupBy(q.message, keyExtractor, semantics)

\* ------------------------------------------------------------------------
\* Messages
\* ------------------------------------------------------------------------
detectFormat(data) ==
  IF data.type = COLLECTION THEN "application/json"
  ELSE IF HasChildren(data) /\ Len(data.children) > 0
    THEN "application/json"
  ELSE IF data.type = VALUE THEN "text/plain"
  ELSE "application/octet-stream"

createMessageFromFNode(data, context, now) ==
  [data |-> data,
   metadata |-> [source |-> [format |-> detectFormat(data),
                             createdAt |-> now]],
   context |-> context]

\* ------------------------------------------------------------------------
\* Bounds and inputs
\* ------------------------------------------------------------------------
MaxNodes == 3
MaxItems == 2
MaxClock == 2
MaxPathLen == 3
\* The nesting depth of calls the call stack has room for
MaxStackDepth == 4

\* A registered record whose tables cover neither the Item role nor any
\* kind of role Item
BARE_SEMANTICS ==
  [format |-> FMT_CUSTOM,
   typeToRole |-> (COLLECTION :> ROLE_CONTAINER) @@ (VALUE :> ROLE_VALUE),
   roleToType |-> (ROLE_CONTAINER :> COLLECTION) @@ (ROLE_VALUE :> VALUE),
   transformationRules |-> [collections |-> PRESERVE, records |-> PRESERVE,
                            attributes |-> PRESERVE, comments |-> PRESERVE],
   queryStrategy |-> FMT_JSON]

\* A record with the XML tables that drops collections, records, comments
PRUNE_SEMANTICS ==
  [format |-> FMT_YAML,
   typeToRole |-> XML_SEMANTICS.typeToRole,
   roleToType |-> XML_SEMANTICS.roleToType,
   transformationRules |-> [collections |-> DROP, records |-> DROP,
                            attributes |-> PRESERVE, comments |-> DROP],
   queryStrategy |-> FMT_XML]

\* A record with the XML tables that drops attributes
STRIP_SEMANTICS ==
  [format |-> FMT_DATABASE,
   typeToRole |-> XML_SEMANTICS.typeToRole,
   roleToType |-> XML_SEMANTICS.roleToType,
   transformationRules |-> [collections |-> PRESERVE, records |-> PRESERVE,
                            attributes |-> DROP, comments |-> PRESERVE],
   queryStrategy |-> FMT_XML]

\* A record with the XML tables that flattens collections
FLAT_SEMANTICS ==
  [format |-> FMT_CUSTOM,
   typeToRole |-> XML_SEMANTICS.typeToRole,
   roleToType |-> XML_SEMANTICS.roleToType,
   transformationRules |-> [collections |-> FLATTEN, records |-> PRESERVE,
                            attributes |-> PRESERVE, comments |-> PRESERVE],
   queryStrategy |-> FMT_XML]

\* A record for the identifier "custom" that covers the Item role
ITEMS_SEMANTICS ==
  [format |-> FMT_CUSTOM,
   typeToRole |-> (RECORD :> ROLE_ITEM) @@ (VALUE :> ROLE_VALUE),
   roleToType |-> (ROLE_ITEM :> RECORD) @@ (ROLE_VALUE :> VALUE),
   transformationRules |-> [collections |-> PRESERVE, records |-> PRESERVE,
                            attributes |-> PRESERVE, comments |-> PRESERVE],
   queryStrategy |-> FMT_XML]

BaselineRecords == {JSON_SEMANTICS, CSV_SEMANTICS, XML_SEMANTICS}
Records == BaselineRecords \cup {BARE_SEMANTICS, ITEMS_SEMANTICS}

\* The identifiers callers name; "yaml" has no record among Records
Formats == {FMT_JSON, FMT_XML, FMT_CSV, FMT_YAML, FMT_CUSTOM}

\* The registry after register() of each record of rs, in any order
\* (at most one record per identifier in rs)
RegistryOf(rs) == [f \in {r.format : r \in rs} |->
                     CHOOSE r \in rs : r.format = f]

\* Node trees for conversion: every tree of at most MaxNodes nodes over
\* one label per kind, a node having a children list, an attribute list,
\* both or neither.
TreeKinds == {COLLECTION, RECORD, VALUE, ATTRIBUTES, COMMENT}
KindName == (COLLECTION :> "list") @@ (RECORD :> "item") @@ (VALUE :> "v")
            @@ (ATTRIBUTES :> "attr") @@ (COMMENT :> "note")
KindValue == (COLLECTION :> Undefined) @@ (RECORD :> Undefined)
             @@ (VALUE :> "7") @@ (ATTRIBUTES :> "on") @@ (COMMENT :> "text")

BuildNode(kind, kids, attrs) ==
  LET base == createFNode(kind, KindName[kind], KindValue[kind])
      c == IF kids = <<>> THEN base ELSE WithChildren(base, kids)
  IN  IF attrs = <<>> THEN c ELSE WithAttributes(c, attrs)

RECURSIVE TreesOfSize(_)
RECURSIVE ForestsOfSize(_)
ForestsOfSize(n) ==
  IF n = 0 THEN {<<>>}
  ELSE UNION {{<<t>> \o f : t \in TreesOfSize(k), f \in ForestsOfSize(n - k)}
              : k \in 1..n}

TreesOfSize(n) ==
  UNION {{BuildNode(kind, kids, attrs) :
            kind \in TreeKinds, kids \in ForestsOfSize(c),
            attrs \in ForestsOfSize(n - 1 - c)}
         : c \in 0..(n - 1)}

\* Give every node the identifier of its position in the tree
RECURSIVE WithIds(_, _)
WithIds(node, id) ==
  LET base == [node EXCEPT !.id = id]
      c == IF HasChildren(node)
             THEN WithChildren(base,
                    [i \in 1..Len(node.children) |->
                       WithIds(node.children[i], id \o "c" \o ToString(i))])
             ELSE base
  IN  IF HasAttributes(node)
        THEN WithAttributes(c,
               [i \in 1..Len(node.attributes) |->
                  WithIds(node.attributes[i], id \o "a" \o ToString(i))])
        ELSE c

InputTrees ==
  {WithIds(t, "n") : t \in UNION {TreesOfSize(n) : n \in 1..MaxNodes}}

\* Records whose children are sequences of leaves and of collections, the
\* collections holding leaves, items and further collections
Leaf(kind) == BuildNode(kind, <<>>, <<>>)
SplicePool ==
  {Leaf(VALUE), Leaf(COMMENT),
   WithChildren(Leaf(COLLECTION), <<>>),
   BuildNode(COLLECTION, <<Leaf(VALUE), Leaf(RECORD)>>, <<Leaf(VALUE)>>),
   BuildNode(COLLECTION,
             <<BuildNode(COLLECTION, <<Leaf(COMMENT)>>, <<>>), Leaf(VALUE)>>,
             <<>>)}

SpliceTrees ==
  {WithIds(WithChildren(Leaf(RECORD), kids), "n") :
     kids \in UNION {[1..k -> SplicePool] : k \in 1..MaxNodes}}

\* Containers for the operations and the query primitives: a collection
\* "data" without children list or with at most MaxItems children
Row(v) == WithChildren(createFNode(RECORD, "row", Undefined),
                       <<createFNode(FIELD, "name", v)>>)
User(v) == WithChildren(createFNode(RECORD, "user", Undefined),
                        <<createFNode(FIELD, "name", v)>>)
IdAttribute == createFNode(VALUE, "id", "7")

ItemPool == {Row("Al"), Row("Bo"), User("Al"),
             createFNode(FIELD, "row", "x"),
             WithChildren(createFNode(COLLECTION, "list", Undefined), <<>>)}

SeqsUpTo(S, n) == UNION {[1..k -> S] : k \in 0..n}

DataRoot == createFNode(COLLECTION, "data", Undefined)

\* The last container holds a row whose name is the empty string
OpsDocs == {DataRoot} \cup
           {WithChildren(DataRoot, kids) : kids \in SeqsUpTo(ItemPool, MaxItems)}
           \cup {WithChildren(DataRoot, <<Row(""), Row("Al")>>)}

\* The same containers, and each of them carrying the attribute id = "7"
NavDocs == OpsDocs \cup {WithAttributes(d, <<IdAttribute>>) : d \in OpsDocs}

MainDocs == {WithChildren(DataRoot, <<Row("Al"), Row("Bo")>>),
             WithAttributes(
               WithChildren(DataRoot,
                 <<User("Al"), createFNode(FIELD, "row", "x")>>),
               <<IdAttribute>>)}

Segments == {"row", "1", "2", "name", "@id", "missing"}
Paths == SeqsUpTo(Segments, MaxPathLen)
MainPaths == {<<"@id">>, <<"row", "1", "name">>}
Keys == {"name", "id"}
TakeCounts == (0 - MaxItems - 1)..(MaxItems + 1)

\* ------------------------------------------------------------------------
\* State machine
\*   registry  the engine's semanticsRegistry
\*   message   the envelope the caller holds
\*   call      the call whose outcome the caller is looking at: its name,
\*             arguments, input and outcome; NoCall between calls
\*   clock     the time read by the next new Date()
\*   builder   the query builder the caller holds: the FormatAwareQuery
\*             object (query) and the history of the structural calls
\*             made on it that returned (applied); NoBuilder before query()
\* ------------------------------------------------------------------------
NoCall == [op |-> "none"]
NoBuilder == [applied |-> <<>>]

\* The core classes before any call on them
NoResources == [pc |-> "idle"]
NoExtensions == [tasks |-> <<>>]
NoPipeline == [pipes |-> <<>>]
CoreIdle ==
  /\ resources = NoResources
  /\ extensions = NoExtensions
  /\ pipeline = NoPipeline

Returned(op, format, arg, result) ==
  [op |-> op, format |-> format, arg |-> arg, input |-> message,
   status |-> "returned", result |-> result]

Threw(op, format, arg) ==
  [op |-> op, format |-> format, arg |-> arg, input |-> message,
   status |-> "threw", error |-> "NotRegistered"]

\* A call of an operation that looks the format up and reads no clock
Query(op, format, arg, result) ==
  /\ call = NoCall
  /\ call' = IF IsRegistered(registry, format)
               THEN Returned(op, format, arg, result)
               ELSE Threw(op, format, arg)
  /\ UNCHANGED <<registry, message, clock, builder, coreVars>>

\* A call of an operation that looks the format up and stamps the time
Stamped(op, format, arg, result) ==
  /\ call = NoCall
  /\ clock <= MaxClock
  /\ call' = IF IsRegistered(registry, format)
               THEN Returned(op, format, arg, result)
               ELSE Threw(op, format, arg)
  /\ clock' = IF IsRegistered(registry, format) THEN clock + 1 ELSE clock
  /\ UNCHANGED <<registry, message, builder, coreVars>>

Register(semantics) ==
  /\ call = NoCall
  /\ registry' = registrySet(registry, semantics)
  /\ call' = [op |-> "register", format |-> semantics.format,
              arg |-> semantics, status |-> "returned"]
  /\ UNCHANGED <<message, clock, builder, coreVars>>

GetSemantics(format) ==
  Query("getSemantics", format, Undefined, registry[format])

GetSupportedFormats ==
  /\ call = NoCall
  /\ call' = [op |-> "getSupportedFormats", status |-> "returned",
              result |-> getSupportedFormats(registry)]
  /\ UNCHANGED <<registry, message, clock, builder, coreVars>>

IsCompatible(sourceFormat, targetFormat) ==
  /\ call = NoCall
  /\ call' = [op |-> "isCompatible", sourceFormat |-> sourceFormat,
              targetFormat |-> targetFormat, status |-> "returned",
              result |-> isCompatible(registry, sourceFormat, targetFormat)]
  /\ UNCHANGED <<registry, message, clock, builder, coreVars>>

\* engine.transform(message.data, sourceFormat, targetFormat)
Transform(sourceFormat, targetFormat) ==
  /\ call = NoCall
  /\ call' =
       IF IsRegistered(registry, sourceFormat)
          /\ IsRegistered(registry, targetFormat)
         THEN [op |-> "transform", sourceFormat |-> sourceFormat,
               targetFormat |-> targetFormat, input |-> message,
               status |-> "returned",
               result |-> transform(message.data, registry[sourceFormat],
                                    registry[targetFormat])]
         ELSE [op |-> "transform", sourceFormat |-> sourceFormat,
               targetFormat |-> targetFormat, input |-> message,
               status |-> "threw", error |-> "NotRegistered"]
  /\ UNCHANGED <<registry, message, clock, builder, coreVars>>

\* engine.transform(converted, targetFormat, sourceFormat) on the result of
\* the last engine.transform(node, sourceFormat, targetFormat)
TransformBack ==
  /\ call.op = "transform"
  /\ call.status = "returned"
  /\ call' = [op |-> "transformBack", sourceFormat |-> call.sourceFormat,
              targetFormat |-> call.targetFormat, input |-> call.input,
              converted |-> call.result, status |-> "returned",
              result |-> transform(call.result, registry[call.targetFormat],
                                   registry[call.sourceFormat])]
  /\ UNCHANGED <<registry, message, clock, builder, coreVars>>

TransformMessage(sourceFormat, targetFormat) ==
  /\ call = NoCall
  /\ clock <= MaxClock
  /\ call' =
       IF IsRegistered(registry, sourceFormat)
          /\ IsRegistered(registry, targetFormat)
         THEN [op |-> "transformMessage", sourceFormat |-> sourceFormat,
               targetFormat |-> targetFormat, input |-> message,
               status |-> "returned",
               result |-> transformMessage(message, registry[sourceFormat],
                                           registry[targetFormat], clock)]
         ELSE [op |-> "transformMessage", sourceFormat |-> sourceFormat,
               targetFormat |-> targetFormat, input |-> message,
               status |-> "threw", error |-> "NotRegistered"]
  /\ clock' = IF IsRegistered(registry, sourceFormat)
                 /\ IsRegistered(registry, targetFormat)
                THEN clock + 1 ELSE clock
  /\ UNCHANGED <<registry, message, builder, coreVars>>

Find(predicate, format) ==
  Query("find", format, predicate, find(message, predicate, registry[format]))

Filter(predicate, format) ==
  Stamped("filter", format, predicate,
          filter(message, predicate, registry[format], clock))

Map(mapper, format) ==
  Query("map", format, mapper, map(message, mapper, registry[format]))

TransformItems(transformer, format) ==
  Stamped("transformItems", format, transformer,
          transformItems(message, transformer, registry[format], clock))

\* extractValue on the container or on one of its children
ExtractValue(node, key, format) ==
  Query("extractValue", format, <<node, key>>,
        extractValue(registry[format], node, key))

NavigatePath(path, format) ==
  Query("navigatePath", format, path,
        navigatePath(registry[format], message.data, path))

GroupBy(keyExtractor, format) ==
  Query("groupBy", format, keyExtractor,
        groupBy(message, keyExtractor, registry[format]))

Reduce(initialValue, format) ==
  Query("reduce", format, initialValue,
        reduce(message, initialValue, registry[format]))

FindFirst(predicate, format) ==
  Query("findFirst", format, predicate,
        findFirst(message, predicate, registry[format]))

Some(predicate, format) ==
  Query("some", format, predicate, some(message, predicate, registry[format]))

Every(predicate, format) ==
  Query("every", format, predicate,
        every(message, predicate, registry[format]))

Count(predicate, format) ==
  Query("count", format, predicate,
        count(message, registry[format], predicate))

\* The comparator may throw out of the sort, before the time is read
Sort(comparator, format) ==
  IF IsRegistered(registry, format)
     /\ sortThrows(message, comparator, registry[format])
    THEN /\ call = NoCall
         /\ call' = [Threw("sort", format, comparator)
                       EXCEPT !.error = "TypeError"]
         /\ UNCHANGED <<registry, message, clock, builder, coreVars>>
    ELSE Stamped("sort", format, comparator,
                 sort(message, comparator, registry[format], clock))

Take(n, format) ==
  Stamped("take", format, n, take(message, n, registry[format], clock))

Skip(n, format) ==
  Stamped("skip", format, n, skip(message, n, registry[format], clock))

StructuralOps == {"filter", "transformItems", "sort", "take", "skip"}

\* The caller goes on with the envelope the last structural operation
\* returned
UseResult ==
  /\ call.op \in StructuralOps
  /\ call.status = "returned"
  /\ message' = call.result
  /\ call' = NoCall
  /\ UNCHANGED <<registry, clock, builder, coreVars>>

\* The caller goes on with the envelope the last transformMessage returned
UseConverted ==
  /\ call.op = "transformMessage"
  /\ call.status = "returned"
  /\ message' = call.result
  /\ call' = NoCall
  /\ UNCHANGED <<registry, clock, builder, coreVars>>

\* The caller is done with the outcome of the last call
Discard ==
  /\ call # NoCall
  /\ call' = NoCall
  /\ UNCHANGED <<registry, message, clock, builder, coreVars>>

NodesOf(msg) == {msg.data} \cup Range(ChildrenOrEmpty(msg.data))

\* --- The engine and the operations from construction on ----------------
Init ==
  /\ registry = <<>>
  /\ message \in {createMessageFromFNode(d, "ctx", 0) : d \in MainDocs}
  /\ call = NoCall
  /\ clock = 1
  /\ builder = NoBuilder
  /\ CoreIdle

EngineCalls ==
  \/ \E r \in Records : Register(r)
  \/ \E f \in Formats : GetSemantics(f)
  \/ GetSupportedFormats
  \/ \E s, t \in Formats : IsCompatible(s, t)
  \/ \E s, t \in Formats : Transform(s, t)
  \/ \E s, t \in Formats : TransformMessage(s, t)

OperationCalls ==
  \/ \E f \in Formats : Find("isAl", f)
  \/ \E f \in Formats : Filter("isAl", f)
  \/ \E f \in Formats : Map("byName", f)
  \/ \E f \in Formats : TransformItems("rename", f)
  \/ \E n \in NodesOf(message), f \in Formats : ExtractValue(n, "name", f)
  \/ \E p \in MainPaths, f \in Formats : NavigatePath(p, f)
  \/ \E f \in Formats : GroupBy("byName", f)
  \/ \E f \in Formats : Reduce(0, f)
  \/ \E f \in Formats : FindFirst("isAl", f)
  \/ \E f \in Formats : Some("isAl", f)
  \/ \E f \in Formats : Every("isAl", f)
  \/ \E p \in {"isAl", Undefined}, f \in Formats : Count(p, f)
  \/ \E f \in Formats : Sort("byNameDesc", f)
  \/ \E f \in Formats : Take(1, f)
  \/ \E f \in Formats : Skip(1, f)

Next == EngineCalls \/ OperationCalls \/ UseConverted \/ Discard

Spec == Init /\ [][Next]_vars

\* --- Conversion, every format registered -------------------------------
ConvertRecords ==
  BaselineRecords \cup {PRUNE_SEMANTICS, STRIP_SEMANTICS, FLAT_SEMANTICS}

\* Trees with back-references: the root, or its only child, lists nodes
\* that are not part of the tree, one of them with a back-reference itself
ParentPool ==
  {Leaf(RECORD), BuildNode(COLLECTION, <<Leaf(VALUE)>>, <<Leaf(ATTRIBUTES)>>),
   WithParents(Leaf(COLLECTION), <<Leaf(RECORD)>>)}
ParentLists == {<<>>} \cup {<<p>> : p \in ParentPool}
                \cup {<<Leaf(RECORD), WithParents(Leaf(COLLECTION),
                                                  <<Leaf(RECORD)>>)>>}

ParentTrees ==
  {WithParents(WithIds(t, "n"), ps) :
     t \in TreesOfSize(1) \cup TreesOfSize(2),
     ps \in ParentLists}
  \cup {WithIds(WithChildren(Leaf(RECORD), <<WithParents(Leaf(k), ps)>>), "n") :
          k \in TreeKinds, ps \in ParentLists}

ConvertTrees == InputTrees \cup SpliceTrees \cup ParentTrees

InitConvert ==
  /\ registry = RegistryOf(ConvertRecords)
  /\ message \in {createMessageFromFNode(t, "ctx", 0) : t \in ConvertTrees}
  /\ call = NoCall
  /\ clock = 1
  /\ builder = NoBuilder
  /\ CoreIdle

NextConvert ==
  \/ \E s, t \in DOMAIN registry : Transform(s, t)
  \/ TransformBack
  \/ Discard

SpecConvert == InitConvert /\ [][NextConvert]_vars

\* --- Query primitives, the baseline formats registered -----------------
InitQuery ==
  /\ registry = RegistryOf(BaselineRecords)
  /\ message \in {createMessageFromFNode(d, "ctx", 0) : d \in NavDocs}
  /\ call = NoCall
  /\ clock = 1
  /\ builder = NoBuilder
  /\ CoreIdle

NextQuery ==
  \/ \E p \in Paths, f \in DOMAIN registry : NavigatePath(p, f)
  \/ \E n \in NodesOf(message), k \in Keys, f \in DOMAIN registry :
       ExtractValue(n, k, f)
  \/ Discard

SpecQuery == InitQuery /\ [][NextQuery]_vars

\* --- Chains of operations, the baseline formats registered -------------
InitOps ==
  /\ registry = RegistryOf(BaselineRecords)
  /\ message \in {createMessageFromFNode(d, "ctx", 0) : d \in OpsDocs}
  /\ call = NoCall
  /\ clock = 1
  /\ builder = NoBuilder
  /\ CoreIdle

NextOps ==
  \/ \E p \in Predicates, f \in DOMAIN registry : Filter(p, f)
  \/ \E t \in Transformers, f \in DOMAIN registry : TransformItems(t, f)
  \/ \E c \in Comparators, f \in DOMAIN registry : Sort(c, f)
  \/ \E n \in TakeCounts, f \in DOMAIN registry : Take(n, f)
  \/ \E n \in TakeCounts, f \in DOMAIN registry : Skip(n, f)
  \/ \E k \in KeyExtractors, f \in DOMAIN registry : GroupBy(k, f)
  \/ \E p \in Predicates \cup {Undefined}, f \in DOMAIN registry : Count(p, f)
  \/ UseResult
  \/ Discard

SpecOps == InitOps /\ [][NextOps]_vars

\* --- Conversion of node graphs ------------------------------------------
\* Nodes that refer to one another are kept in a heap: a function from
\* references to nodes whose children, parents and attributes lists hold
\* references.  The root object of a message is a reference into a heap.
GraphRefs == {"a", "b"}
RefLists == {<<r>> : r \in GraphRefs}

\* An optional list: <<>> when the field is undefined, <<list>> otherwise
ChildOptions == {<<>>, <<(<<>>)>>} \cup {<<l>> : l \in RefLists}
RefOptions == {<<>>} \cup {<<l>> : l \in RefLists}

HeapNode(kind, ref, kids, ps, attrs) ==
  LET base == [createFNode(kind, KindName[kind], KindValue[kind])
                 EXCEPT !.id = ref]
      c == IF kids = <<>> THEN base ELSE WithChildren(base, kids[1])
      p == IF ps = <<>> THEN c ELSE WithParents(c, ps[1])
  IN  IF attrs = <<>> THEN p ELSE WithAttributes(p, attrs[1])

HeapNodes(kind, ref) ==
  {HeapNode(kind, ref, kids, ps, attrs) :
     kids \in ChildOptions, ps \in RefOptions, attrs \in RefOptions}

Heaps == {("a" :> na) @@ ("b" :> nb) :
            na \in HeapNodes(COLLECTION, "a"), nb \in HeapNodes(RECORD, "b")}

GraphMessage(heap) ==
  [data |-> [heap |-> heap, ref |-> "a"],
   metadata |-> [source |-> [format |-> "application/json", createdAt |-> 0]],
   context |-> "ctx"]

\* toSemantic on the node a reference stands for, depth being the nesting
\* depth of the call: <<>> when the call stack is exhausted (RangeError),
\* <<semantic>> otherwise
RECURSIVE toSemanticAt(_, _, _, _)

\* Mutant: back-references are not descended into
toSemanticAt_skipsParents(heap, ref, depth, semantics) ==
  IF depth > MaxStackDepth THEN <<>>
  ELSE
    LET node == heap[ref]
        role == MapGetOr(semantics.typeToRole, node.type, ROLE_VALUE)
        Lift(list) == [i \in 1..Len(list) |->
                         toSemanticAt(heap, list[i], depth + 1, semantics)]
        Unwrap(lifted) == [i \in 1..Len(lifted) |-> lifted[i][1]]
        kids == IF HasChildren(node) THEN Lift(node.children) ELSE <<>>
        attrs == IF HasAttributes(node) THEN Lift(node.attributes) ELSE <<>>
        base == [role |-> role, name |-> node.name, value |-> node.value,
                 id |-> node.id, ns |-> node.ns, label |-> node.label]
        c == IF HasChildren(node) THEN WithChildren(base, Unwrap(kids))
             ELSE base
        p == c
    IN  IF \E i \in 1..Len(kids) : kids[i] = <<>> THEN <<>>
        ELSE IF \E i \in 1..Len(attrs) : attrs[i] = <<>> THEN <<>>
        ELSE IF HasAttributes(node)
          THEN <<WithAttributes(p, Unwrap(attrs))>>
        ELSE <<p>>

toSemanticAt(heap, ref, depth, semantics) ==
  IF depth > MaxStackDepth THEN <<>>
  ELSE
    LET node == heap[ref]
        role == MapGetOr(semantics.typeToRole, node.type, ROLE_VALUE)
        Lift(list) == [i \in 1..Len(list) |->
                         toSemanticAt(heap, list[i], depth + 1, semantics)]
        Unwrap(lifted) == [i \in 1..Len(lifted) |-> lifted[i][1]]
        kids == IF HasChildren(node) THEN Lift(node.children) ELSE <<>>
        ps == IF HasParents(node) THEN Lift(node.parents) ELSE <<>>
        attrs == IF HasAttributes(node) THEN Lift(node.attributes) ELSE <<>>
        base == [role |-> role, name |-> node.name, value |-> node.value,
                 id |-> node.id, ns |-> node.ns, label |-> node.label]
        c == IF HasChildren(node) THEN WithChildren(base, Unwrap(kids))
             ELSE base
        p == IF HasParents(node) THEN WithParents(c, Unwrap(ps)) ELSE c
    IN  IF \E i \in 1..Len(kids) : kids[i] = <<>> THEN <<>>
        ELSE IF \E i \in 1..Len(ps) : ps[i] = <<>> THEN <<>>
        ELSE IF \E i \in 1..Len(attrs) : attrs[i] = <<>> THEN <<>>
        ELSE IF HasAttributes(node)
          THEN <<WithAttributes(p, Unwrap(attrs))>>
        ELSE <<p>>

\* engine.transform on a root reference, both lookups having succeeded:
\* <<>> when it ends in a RangeError, <<node>> when it returns
transformGraph(heap, ref, sourceSemantics, targetSemantics) ==
  LET semantic == toSemanticAt(heap, ref, 1, sourceSemantics)
  IN  IF semantic = <<>> THEN <<>>
      ELSE <<fromSemantic(semantic[1], targetSemantics)>>

TransformGraph(sourceFormat, targetFormat) ==
  /\ call = NoCall
  /\ call' =
       LET outcome == [op |-> "transformGraph", sourceFormat |-> sourceFormat,
                       targetFormat |-> targetFormat, input |-> message]
           Fail(error) == [k \in DOMAIN outcome \cup {"status", "error"} |->
                             CASE k = "status" -> "threw"
                               [] k = "error" -> error
                               [] OTHER -> outcome[k]]
       IN  IF IsRegistered(registry, sourceFormat)
              /\ IsRegistered(registry, targetFormat)
             THEN LET result == transformGraph(message.data.heap,
                                  message.data.ref, registry[sourceFormat],
                                  registry[targetFormat])
                  IN  IF result = <<>> THEN Fail("RangeError")
                      ELSE [k \in DOMAIN outcome \cup {"status", "result"} |->
                              CASE k = "status" -> "returned"
                                [] k = "result" -> result[1]
                                [] OTHER -> outcome[k]]
             ELSE Fail("NotRegistered")
  /\ UNCHANGED <<registry, message, clock, builder, coreVars>>

InitGraph ==
  /\ registry = RegistryOf(BaselineRecords)
  /\ message \in {GraphMessage(h) : h \in Heaps}
  /\ call = NoCall
  /\ clock = 1
  /\ builder = NoBuilder
  /\ CoreIdle

NextGraph ==
  \/ \E s, t \in DOMAIN registry : TransformGraph(s, t)
  \/ Discard

SpecGraph == InitGraph /\ [][NextGraph]_vars

\* --- The query builder, the baseline formats registered ----------------
IsBuilder == "query" \in DOMAIN builder

\* operations.query(message, format)
NewQuery(format) ==
  /\ call = NoCall
  /\ builder' = [query |-> query(message, format), applied |-> <<>>]
  /\ call' = [op |-> "query", format |-> format, status |-> "returned"]
  /\ UNCHANGED <<registry, message, clock, coreVars>>

\* A structural call on the builder: the operation looks the format up,
\* the builder takes the envelope it returns and the call returns `this`
Chained(op, arg, next) ==
  /\ call = NoCall
  /\ IsBuilder
  /\ clock <= MaxClock
  /\ IF IsRegistered(registry, builder.query.format)
       THEN /\ builder' = [query |-> next,
                           applied |-> Append(builder.applied,
                                              [op |-> op, arg |-> arg])]
            /\ call' = [op |-> "query." \o op, arg |-> arg,
                        status |-> "returned", result |-> "this"]
            /\ clock' = clock + 1
       ELSE /\ call' = [op |-> "query." \o op, arg |-> arg,
                        status |-> "threw", error |-> "NotRegistered"]
            /\ UNCHANGED <<builder, clock, coreVars>>
  /\ UNCHANGED <<registry, message, coreVars>>

\* A terminal call on the builder that looks the format up
Terminal(op, arg, result) ==
  /\ call = NoCall
  /\ IsBuilder
  /\ call' = IF IsRegistered(registry, builder.query.format)
               THEN [op |-> "query." \o op, arg |-> arg,
                     status |-> "returned", result |-> result]
               ELSE [op |-> "query." \o op, arg |-> arg,
                     status |-> "threw", error |-> "NotRegistered"]
  /\ UNCHANGED <<registry, message, clock, builder, coreVars>>

QueryFilter(predicate) ==
  Chained("filter", predicate,
          queryFilter(builder.query, predicate,
                      registry[builder.query.format], clock))

QueryTransform(transformer) ==
  Chained("transformItems", transformer,
          queryTransform(builder.query, transformer,
                         registry[builder.query.format], clock))

\* When the comparator throws, the builder is not assigned
QuerySort(comparator) ==
  IF IsBuilder
     /\ IsRegistered(registry, builder.query.format)
     /\ sortThrows(builder.query.message, comparator,
                   registry[builder.query.format])
    THEN /\ call = NoCall
         /\ call' = [op |-> "query.sort", arg |-> comparator,
                     status |-> "threw", error |-> "TypeError"]
         /\ UNCHANGED <<registry, message, clock, builder, coreVars>>
    ELSE Chained("sort", comparator,
                 querySort(builder.query, comparator,
                           registry[builder.query.format], clock))

QueryTake(n) ==
  Chained("take", n,
          queryTake(builder.query, n, registry[builder.query.format], clock))

QuerySkip(n) ==
  Chained("skip", n,
          querySkip(builder.query, n, registry[builder.query.format], clock))

QueryExecute ==
  /\ call = NoCall
  /\ IsBuilder
  /\ call' = [op |-> "query.execute", status |-> "returned",
              result |-> queryExecute(builder.query)]
  /\ UNCHANGED <<registry, message, clock, builder, coreVars>>

QueryMap(mapper) ==
  Terminal("map", mapper,
           queryMap(builder.query, mapper, registry[builder.query.format]))

QueryCount(predicate) ==
  Terminal("count", predicate,
           queryCount(builder.query, registry[builder.query.format],
                      predicate))

QueryGroupBy(keyExtractor) ==
  Terminal("groupBy", keyExtractor,
           queryGroupBy(builder.query, keyExtractor,
                        registry[builder.query.format]))

\* One container holds a row without a name, which the comparator cannot
\* take as its first argument, and one a row whose name is the empty string
BuilderDocs ==
  MainDocs \cup {WithChildren(DataRoot, <<Row("Bo"), User("Al"), Row("Al")>>),
                 WithChildren(DataRoot,
                   <<Row("Al"), createFNode(FIELD, "row", "x")>>),
                 WithChildren(DataRoot, <<Row(""), Row("Al")>>)}

\* The identifiers query() is called with; "yaml" has no record
BuilderFormats == {FMT_JSON, FMT_CSV, FMT_XML, FMT_YAML}

InitBuilder ==
  /\ registry = RegistryOf(BaselineRecords)
  /\ message \in {createMessageFromFNode(d, "ctx", 0) : d \in BuilderDocs}
  /\ call = NoCall
  /\ clock = 1
  /\ builder = NoBuilder
  /\ CoreIdle

NextBuilder ==
  \/ \E f \in BuilderFormats : NewQuery(f)
  \/ QueryFilter("isAl")
  \/ QueryTransform("rename")
  \/ \E c \in Comparators : QuerySort(c)
  \/ \E n \in 0..MaxItems : QueryTake(n)
  \/ \E n \in {0 - 1, 1} : QuerySkip(n)
  \/ QueryExecute
  \/ QueryMap("byName")
  \/ \E p \in {"isAl", Undefined} : QueryCount(p)
  \/ QueryGroupBy("byName")
  \/ Discard

SpecBuilder == InitBuilder /\ [][NextBuilder]_vars

\* --- Lookups on nodes with and without lists, the baseline formats ------
\* Containers without a children list, with an empty one, with an empty
\* and a one-member attribute list, with rows, with two children of one
\* name, and with a nested collection
LookupDocs ==
  {DataRoot,
   WithChildren(DataRoot, <<>>),
   WithAttributes(DataRoot, <<>>),
   WithAttributes(WithChildren(DataRoot, <<>>), <<IdAttribute>>),
   WithChildren(DataRoot, <<Row("Al"), Row("Bo")>>),
   WithChildren(DataRoot, <<User("Al"), Row("Bo")>>),
   WithAttributes(
     WithChildren(DataRoot, <<User("Al"), createFNode(FIELD, "row", "x")>>),
     <<IdAttribute>>),
   WithChildren(DataRoot,
     <<createFNode(FIELD, "name", "first"),
       createFNode(FIELD, "name", "second")>>),
   WithChildren(DataRoot,
     <<WithChildren(createFNode(COLLECTION, "list", Undefined),
                    <<Row("Al"), Row("Bo")>>),
       createFNode(FIELD, "name", "top")>>)}

LookupSegments == {"row", "list", "name", "1", "@id", "missing"}
LookupPaths == SeqsUpTo(LookupSegments, MaxPathLen)

InitLookup ==
  /\ registry = RegistryOf(BaselineRecords)
  /\ message \in {createMessageFromFNode(d, "ctx", 0) : d \in LookupDocs}
  /\ call = NoCall
  /\ clock = 1
  /\ builder = NoBuilder
  /\ CoreIdle

NextLookup ==
  \/ \E p \in LookupPaths, f \in DOMAIN registry : NavigatePath(p, f)
  \/ \E n \in NodesOf(message), k \in Keys, f \in DOMAIN registry :
       ExtractValue(n, k, f)
  \/ Discard

SpecLookup == InitLookup /\ [][NextLookup]_vars

\* --- Counting before and after a conversion of the envelope -------------
CrossFormats == {FMT_JSON, FMT_CSV}

InitCross ==
  /\ registry = RegistryOf(BaselineRecords)
  /\ message \in {createMessageFromFNode(d, "ctx", 0) : d \in OpsDocs}
  /\ call = NoCall
  /\ clock = 1
  /\ builder = NoBuilder
  /\ CoreIdle

NextCross ==
  \/ \E s, t \in CrossFormats : TransformMessage(s, t)
  \/ UseConverted
  \/ \E f \in CrossFormats : Count(Undefined, f)
  \/ Discard

SpecCross == InitCross /\ [][NextCross]_vars

\* --- Every call that is given a format identifier, from construction on --
\* The engine's calls, the operations and the query builder, over
\* registries that hold none, one or both of two baseline records;
\* "xml", "yaml" and "custom" never have a record
NamesRecords == {JSON_SEMANTICS, CSV_SEMANTICS}
NamesFormats == {FMT_JSON, FMT_CSV, FMT_YAML}

NextNames ==
  \/ \E r \in NamesRecords : Register(r)
  \/ \E f \in NamesFormats : GetSemantics(f)
  \/ \E s, t \in NamesFormats : IsCompatible(s, t)
  \/ \E s, t \in NamesFormats : Transform(s, t)
  \/ \E s, t \in NamesFormats : TransformMessage(s, t)
  \/ OperationCalls
  \/ \E f \in NamesFormats : NewQuery(f)
  \/ QueryFilter("isAl")
  \/ QueryTransform("rename")
  \/ QuerySort("byNameDesc")
  \/ QueryTake(1)
  \/ QuerySkip(1)
  \/ QueryExecute
  \/ QueryMap("byName")
  \/ QueryCount(Undefined)
  \/ QueryGroupBy("byName")
  \/ Discard

SpecNames == Init /\ [][NextNames]_vars

\* ------------------------------------------------------------------------
\* Objects with identity
\*   The operations above compute on values.  Here the same code is read
\*   statement by statement for what it allocates and what it writes: a
\*   heap is the sequence of the objects allocated so far, a reference is
\*   an index into it.  A cell is a node (the fields of an FNode, its
\*   children, attributes and parents holding the reference of an array),
\*   an array (elems), an envelope (data and metadata hold references) or
\*   a metadata object (entries).  Spread, filter, map, slice and an
\*   object or array literal allocate; an assignment to a property and
\*   Array.prototype.sort write to the object they are applied to.
\*   message = [heap, ref]: the heap and the envelope the caller holds.
\* ------------------------------------------------------------------------
MaxCells == 20

ListFields == {"children", "attributes", "parents"}

\* An object or array literal, a spread, filter, map or slice: a new object
Alloc(h, cell) == [heap |-> Append(h, cell), ref |-> Len(h) + 1]

\* { ...cell, [field]: value }
WithField(cell, field, value) ==
  [k \in DOMAIN cell \cup {field} |-> IF k = field THEN value ELSE cell[k]]
    @@ <<>>

\* object[field] = value
Write(h, ref, field, value) ==
  [h EXCEPT ![ref] = WithField(@, field, value)]

\* The elements of the array a node holds in a field; node[field] || []
ElemsOf(h, node, field) ==
  IF field \in DOMAIN h[node] THEN h[h[node][field]].elems ELSE <<>>

\* The node tree read from a reference
RECURSIVE Load(_, _)
Load(h, ref) ==
  [k \in DOMAIN h[ref] |->
     IF k \in ListFields
       THEN SubSeq([i \in 1..Len(ElemsOf(h, ref, k)) |->
                      Load(h, ElemsOf(h, ref, k)[i])],
                   1, Len(ElemsOf(h, ref, k)))
       ELSE h[ref][k]] @@ <<>>

\* The envelope read from a reference
LoadMessage(h, ref) ==
  [data |-> Load(h, h[ref].data),
   metadata |-> h[h[ref].metadata].entries,
   context |-> h[ref].context]

\* The node as a callback reads it, and the reference it was read from
Tagged(h, ref) == WithField(Load(h, ref), "ref", ref)

\* A node tree built as objects, and an envelope around it
RECURSIVE StoreNode(_, _)
RECURSIVE StoreList(_, _)
StoreList(h, nodes) ==
  IF nodes = <<>> THEN [heap |-> h, refs |-> <<>>]
  ELSE
    LET first == StoreNode(h, Head(nodes))
        rest == StoreList(first.heap, Tail(nodes))
    IN  [heap |-> rest.heap, refs |-> <<first.ref>> \o rest.refs]

RECURSIVE StoreFields(_, _, _, _)
StoreFields(h, node, fields, cell) ==
  IF fields = {} THEN Alloc(h, cell)
  ELSE
    LET field == CHOOSE f \in fields : TRUE
        list == StoreList(h, node[field])
        array == Alloc(list.heap, [elems |-> list.refs])
    IN  StoreFields(array.heap, node, fields \ {field},
                    WithField(cell, field, array.ref))

StoreNode(h, node) ==
  StoreFields(h, node, DOMAIN node \cap ListFields,
              [k \in DOMAIN node \ ListFields |-> node[k]])

StoreMessage(msg) ==
  LET data == StoreNode(<<>>, msg.data)
      metadata == Alloc(data.heap, [entries |-> msg.metadata])
  IN  Alloc(metadata.heap,
            [data |-> data.ref, metadata |-> metadata.ref,
             context |-> msg.context])

\* --- TransformationEngine on objects -----------------------------------
\* toSemantic reads the node tree and builds semantic nodes that hold the
\* scalars of the nodes; fromSemantic builds every node it returns
RECURSIVE fromSemanticAt(_, _, _)
RECURSIVE fromSemanticEachAt(_, _, _)
RECURSIVE applyTransformationRulesAt(_, _, _)

\* list.map(x => this.fromSemantic(x, semantics)), without the array
fromSemanticEachAt(h, list, semantics) ==
  IF list = <<>> THEN [heap |-> h, refs |-> <<>>]
  ELSE
    Then(fromSemanticAt(h, Head(list), semantics), LAMBDA first :
    Then(fromSemanticEachAt(first.heap, Tail(list), semantics), LAMBDA rest :
      [heap |-> rest.heap, refs |-> <<first.ref>> \o rest.refs]))

\* refs.map(ref => ({ ...object, [field]: value })), without the array
RECURSIVE CopyEach(_, _, _, _)
CopyEach(h, refs, field, value) ==
  IF refs = <<>> THEN [heap |-> h, refs |-> <<>>]
  ELSE
    Then(Alloc(h, WithField(h[Head(refs)], field, value)), LAMBDA first :
    Then(CopyEach(first.heap, Tail(refs), field, value), LAMBDA rest :
      [heap |-> rest.heap, refs |-> <<first.ref>> \o rest.refs]))

\* The array of the references in list.refs
ArrayOf(list) == Alloc(list.heap, [elems |-> list.refs])

\* The result is reference 0 for undefined, else that of the new array
applyAttributeTransformationRulesAt(h, attributes, semantics) ==
  IF Len(attributes) = 0 THEN [heap |-> h, ref |-> 0]
  ELSE
    LET strategy == semantics.transformationRules.attributes
    IN  IF strategy = DROP THEN [heap |-> h, ref |-> 0]
        ELSE
          Then(fromSemanticEachAt(h, attributes, semantics), LAMBDA rebuilt :
            IF strategy = CONVERT
              THEN Then(CopyEach(rebuilt.heap, rebuilt.refs, "type", FIELD),
                        ArrayOf)
              ELSE ArrayOf(rebuilt))

\* promotedNode.type = ... and demotedNode.type = ...: the node that
\* fromSemantic returned is assigned its type
Retyped(node, type) ==
  [heap |-> Write(node.heap, node.ref, "type", type), refs |-> <<node.ref>>]

\* The references pushed to `result`, in order
applyTransformationRulesAt(h, children, semantics) ==
  IF Len(children) = 0 THEN [heap |-> h, refs |-> <<>>]
  ELSE
    LET child == Head(children)
        strategy == getTransformationStrategy(child.role, semantics)
        produced ==
          CASE strategy = FLATTEN ->
                 IF HasChildren(child)
                   THEN applyTransformationRulesAt(h, child.children,
                                                   semantics)
                   ELSE [heap |-> h, refs |-> <<>>]
            [] strategy = PROMOTE ->
                 Then(fromSemanticAt(h, child, semantics),
                      LAMBDA node : Retyped(node, COMMENT))
            [] strategy = DEMOTE ->
                 Then(fromSemanticAt(h, child, semantics),
                      LAMBDA node : Retyped(node, ATTRIBUTES))
            [] strategy = DROP -> [heap |-> h, refs |-> <<>>]
            [] OTHER ->
                 Then(fromSemanticAt(h, child, semantics),
                      LAMBDA node : [heap |-> node.heap,
                                     refs |-> <<node.ref>>])
    IN  Then(produced, LAMBDA pushed :
        Then(applyTransformationRulesAt(pushed.heap, Tail(children),
                                        semantics), LAMBDA rest :
          [heap |-> rest.heap, refs |-> pushed.refs \o rest.refs]))

fromSemanticAt(h, semantic, semantics) ==
  LET targetType == MapGetOr(semantics.roleToType, semantic.role, VALUE)
      base == [type |-> targetType, name |-> semantic.name,
               value |-> semantic.value, id |-> semantic.id,
               ns |-> semantic.ns, label |-> semantic.label]
  IN  Then(applyTransformationRulesAt(h, ChildrenOrEmpty(semantic),
                                      semantics), LAMBDA transformed :
      Then(ArrayOf(transformed), LAMBDA transformedChildren :
      Then(applyAttributeTransformationRulesAt(transformedChildren.heap,
             AttributesOrEmpty(semantic), semantics),
           LAMBDA transformedAttributes :
        LET c == WithField(base, "children", transformedChildren.ref)
            a == IF transformedAttributes.ref = 0 THEN c
                 ELSE WithField(c, "attributes", transformedAttributes.ref)
        IN  IF HasParents(semantic)
              THEN Then(fromSemanticEachAt(transformedAttributes.heap,
                                           semantic.parents, semantics),
                        LAMBDA mapped :
                   Then(ArrayOf(mapped), LAMBDA parents :
                     Alloc(parents.heap,
                           WithField(a, "parents", parents.ref))))
              ELSE Alloc(transformedAttributes.heap, a))))

\* transform(node, sourceFormat, targetFormat) once both lookups succeeded
transformAt(h, node, sourceSemantics, targetSemantics) ==
  Then(toSemantic(Load(h, node), sourceSemantics), LAMBDA semantic :
    fromSemanticAt(h, semantic, targetSemantics))

\* { ...message, data, metadata: { ...message.metadata, [key]: entry } }
envelopeAt(h, msg, newData, key, entry) ==
  Then(Alloc(h, [entries |->
                   MetadataWith(h[h[msg].metadata].entries, key, entry)]),
       LAMBDA metadata :
    Alloc(metadata.heap,
          WithField(WithField(h[msg], "data", newData),
                    "metadata", metadata.ref)))

transformMessageAt(h, msg, sourceSemantics, targetSemantics, now) ==
  Then(transformAt(h, h[msg].data, sourceSemantics, targetSemantics),
       LAMBDA transformedData :
    envelopeAt(transformedData.heap, msg, transformedData.ref,
      "transformation",
      [sourceFormat |-> sourceSemantics.format,
       targetFormat |-> targetSemantics.format,
       transformedAt |-> now]))

\* --- FormatAwareOperations on objects ----------------------------------
\* node.children?.filter(...) || []: a new array of the children selected
findItemsAt(h, semantics, node) ==
  LET children == ElemsOf(h, node, "children")
  IN  Alloc(h, [elems |->
        CASE semantics.queryStrategy = FMT_JSON ->
               SelectSeq(children,
                         LAMBDA child : h[child].type = RECORD
                                        \/ h[child].type = COLLECTION)
          [] semantics.queryStrategy = FMT_CSV ->
               SelectSeq(children, LAMBDA child : h[child].name = "row")
          [] semantics.queryStrategy = FMT_XML ->
               SelectSeq(children, LAMBDA child : h[child].type = RECORD)])

\* The items as the callbacks read them, each with its reference
TaggedItems(items) ==
  LET elems == items.heap[items.ref].elems
  IN  SubSeq([i \in 1..Len(elems) |-> Tagged(items.heap, elems[i])],
             1, Len(elems))

\* items.filter(predicate)
filteredAt(items, predicate, semantics) ==
  Then(TaggedItems(items), LAMBDA read :
    Then(SelectSeq(read,
           LAMBDA item : applyPredicate(predicate, semantics, item)),
         LAMBDA kept :
      Alloc(items.heap,
            [elems |-> SubSeq([i \in 1..Len(kept) |-> kept[i].ref],
                              1, Len(kept))])))

\* Mutant: the container given is assigned the items and returned
reconstructWithItemsAt_assignsChildren(h, originalData, items, format) ==
  IF format = FMT_CSV
    THEN Then(CopyEach(h, h[items].elems, "name", "row"), LAMBDA rows :
         Then(ArrayOf(rows), LAMBDA mapped :
           [heap |-> Write(mapped.heap, originalData, "children",
                           mapped.ref),
            ref |-> originalData]))
    ELSE [heap |-> Write(h, originalData, "children", items),
          ref |-> originalData]

reconstructWithItemsAt(h, originalData, items, format) ==
  IF format = FMT_CSV
    THEN Then(CopyEach(h, h[items].elems, "name", "row"), LAMBDA rows :
         Then(ArrayOf(rows), LAMBDA mapped :
           Alloc(mapped.heap,
                 WithField(h[originalData], "children", mapped.ref))))
    ELSE Alloc(h, WithField(h[originalData], "children", items))

\* The envelope an operation returns: a new container around the array
\* the operation made (made) and a new envelope around the container
returnedAt(h, msg, made, format, processing) ==
  Then(reconstructWithItemsAt(made.heap, h[msg].data, made.ref, format),
       LAMBDA newData :
    envelopeAt(newData.heap, msg, newData.ref, "processing", processing))

findAt(h, msg, predicate, semantics) ==
  Then(findItemsAt(h, semantics, h[msg].data), LAMBDA items :
    filteredAt(items, predicate, semantics))

filterAt(h, msg, predicate, semantics, now) ==
  Then(findItemsAt(h, semantics, h[msg].data), LAMBDA items :
  Then(filteredAt(items, predicate, semantics), LAMBDA filtered :
    returnedAt(h, msg, filtered, semantics.format,
      [operation |-> "filter",
       originalCount |-> Len(items.heap[items.ref].elems),
       filteredCount |-> Len(filtered.heap[filtered.ref].elems),
       timestamp |-> now])))

\* items.map(mapper) with the key extractors as mappers
mapAt(h, msg, mapper, semantics) ==
  Then(findItemsAt(h, semantics, h[msg].data), LAMBDA items :
  Then(TaggedItems(items), LAMBDA read :
    Alloc(items.heap,
      [elems |-> SubSeq([i \in 1..Len(read) |->
                           applyKeyExtractor(mapper, semantics, read[i])],
                        1, Len(read))])))

\* (item) => item   and   (item) => ({ ...item, name: 'entry' }); the
\* transformer of the demo makes the field, the array that holds the
\* children of the item and the field, and the node that holds the array
applyTransformerAt(h, transformer, item) ==
  CASE transformer = "identity" -> [heap |-> h, ref |-> item]
    [] transformer = "rename" -> Alloc(h, WithField(h[item], "name", "entry"))
    [] transformer = "displayName" ->
         Then(Alloc(h, createFNode(FIELD, "displayName",
                                   displayNameOf(Load(h, item)))),
              LAMBDA field :
         Then(Alloc(field.heap,
                    [elems |-> ElemsOf(h, item, "children") \o <<field.ref>>]),
              LAMBDA children :
           Alloc(children.heap,
                 WithField(h[item], "children", children.ref))))

\* items.map(transformer), without the array
RECURSIVE transformEachAt(_, _, _)
transformEachAt(h, refs, transformer) ==
  IF refs = <<>> THEN [heap |-> h, refs |-> <<>>]
  ELSE
    Then(applyTransformerAt(h, transformer, Head(refs)), LAMBDA first :
    Then(transformEachAt(first.heap, Tail(refs), transformer), LAMBDA rest :
      [heap |-> rest.heap, refs |-> <<first.ref>> \o rest.refs]))

\* FormatAwareOperations.transform
transformItemsAt(h, msg, transformer, semantics, now) ==
  Then(findItemsAt(h, semantics, h[msg].data), LAMBDA items :
  Then(transformEachAt(items.heap, items.heap[items.ref].elems, transformer),
       LAMBDA each :
  Then(ArrayOf(each), LAMBDA transformedItems :
    returnedAt(h, msg, transformedItems, semantics.format,
      [operation |-> "transform", itemCount |-> Len(each.refs),
       timestamp |-> now]))))

\* The Map and the arrays it holds are built by the call: one cell, the
\* items of each key by reference
groupByAt(h, msg, keyExtractor, semantics) ==
  Then(findItemsAt(h, semantics, h[msg].data), LAMBDA items :
  Then(TaggedItems(items), LAMBDA read :
  Then(groupByLoop(read, <<>>, keyExtractor, semantics), LAMBDA groups :
    Alloc(items.heap,
      [groups |-> [k \in DOMAIN groups |->
                     SubSeq([i \in 1..Len(groups[k]) |-> groups[k][i].ref],
                            1, Len(groups[k]))] @@ <<>>]))))

\* The array of the items and the value reduce returns
reduceAt(h, msg, initialValue, semantics) ==
  Then(findItemsAt(h, semantics, h[msg].data), LAMBDA items :
    [heap |-> items.heap,
     value |-> reduceLoop(items.heap[items.ref].elems, 0, initialValue)])

\* [...items].sort(comparator): the outcome of sorting the copy
sortedAt(h, msg, comparator, semantics) ==
  Then(findItemsAt(h, semantics, h[msg].data), LAMBDA items :
  Then(TaggedItems(items), LAMBDA read :
    ArraySort(read, comparator, semantics)))

\* sort when the comparator does not throw: the copy is allocated, sort
\* writes the sorted order into the copy
sortAt(h, msg, comparator, semantics, now) ==
  Then(findItemsAt(h, semantics, h[msg].data), LAMBDA items :
  Then(Alloc(items.heap, [elems |-> items.heap[items.ref].elems]),
       LAMBDA copy :
  Then(sortedAt(h, msg, comparator, semantics).value, LAMBDA order :
    returnedAt(h, msg,
      [heap |-> Write(copy.heap, copy.ref, "elems",
                      SubSeq([i \in 1..Len(order) |-> order[i].ref],
                             1, Len(order))),
       ref |-> copy.ref],
      semantics.format,
      [operation |-> "sort", itemCount |-> Len(order),
       timestamp |-> now]))))

takeAt(h, msg, n, semantics, now) ==
  Then(findItemsAt(h, semantics, h[msg].data), LAMBDA items :
  Then(Slice(items.heap[items.ref].elems, 0, n), LAMBDA taken :
  Then(Alloc(items.heap, [elems |-> taken]), LAMBDA takenItems :
    returnedAt(h, msg, takenItems, semantics.format,
      [operation |-> "take",
       originalCount |-> Len(items.heap[items.ref].elems),
       takenCount |-> Len(taken), timestamp |-> now]))))

skipAt(h, msg, n, semantics, now) ==
  Then(findItemsAt(h, semantics, h[msg].data), LAMBDA items :
  Then(Slice(items.heap[items.ref].elems, n,
             Len(items.heap[items.ref].elems)), LAMBDA remaining :
  Then(Alloc(items.heap, [elems |-> remaining]), LAMBDA remainingItems :
    returnedAt(h, msg, remainingItems, semantics.format,
      [operation |-> "skip",
       originalCount |-> Len(items.heap[items.ref].elems),
       skippedCount |-> n, remainingCount |-> Len(remaining),
       timestamp |-> now]))))

\* --- Calls on objects --------------------------------------------------
\* A call that looks the format up and reads no clock; made is the object
\* it returns and the heap when it returns
ReadsObjects(op, format, arg, made) ==
  /\ call = NoCall
  /\ IF IsRegistered(registry, format)
       THEN \E out \in {made} :
              /\ call' = Returned(op, format, arg, out.ref)
              /\ message' = [heap |-> out.heap, ref |-> message.ref]
       ELSE /\ call' = Threw(op, format, arg)
            /\ UNCHANGED message
  /\ UNCHANGED <<registry, clock, builder, coreVars>>

\* A call that looks the format up and stamps the time; made is the
\* envelope it returns and the heap when it returns
StampsObjects(op, format, arg, made) ==
  /\ call = NoCall
  /\ clock <= MaxClock
  /\ IF IsRegistered(registry, format)
       THEN \E out \in {made} :
              /\ call' = Returned(op, format, arg, out.ref)
              /\ message' = [heap |-> out.heap, ref |-> message.ref]
              /\ clock' = clock + 1
       ELSE /\ call' = Threw(op, format, arg)
            /\ UNCHANGED <<message, clock>>
  /\ UNCHANGED <<registry, builder, coreVars>>

\* engine.transform(message.data, sourceFormat, targetFormat)
TransformAt(sourceFormat, targetFormat) ==
  /\ call = NoCall
  /\ IF IsRegistered(registry, sourceFormat)
        /\ IsRegistered(registry, targetFormat)
       THEN \E out \in {transformAt(message.heap,
                                    message.heap[message.ref].data,
                                    registry[sourceFormat],
                                    registry[targetFormat])} :
              /\ call' = [op |-> "transform",
                          sourceFormat |-> sourceFormat,
                          targetFormat |-> targetFormat,
                          input |-> message, status |-> "returned",
                          result |-> out.ref]
              /\ message' = [heap |-> out.heap, ref |-> message.ref]
       ELSE /\ call' = [op |-> "transform", sourceFormat |-> sourceFormat,
                        targetFormat |-> targetFormat, input |-> message,
                        status |-> "threw", error |-> "NotRegistered"]
            /\ UNCHANGED message
  /\ UNCHANGED <<registry, clock, builder, coreVars>>

TransformMessageAt(sourceFormat, targetFormat) ==
  /\ call = NoCall
  /\ clock <= MaxClock
  /\ IF IsRegistered(registry, sourceFormat)
        /\ IsRegistered(registry, targetFormat)
       THEN \E out \in {transformMessageAt(message.heap, message.ref,
                                           registry[sourceFormat],
                                           registry[targetFormat], clock)} :
              /\ call' = [op |-> "transformMessage",
                          sourceFormat |-> sourceFormat,
                          targetFormat |-> targetFormat,
                          input |-> message, status |-> "returned",
                          result |-> out.ref]
              /\ message' = [heap |-> out.heap, ref |-> message.ref]
              /\ clock' = clock + 1
       ELSE /\ call' = [op |-> "transformMessage",
                        sourceFormat |-> sourceFormat,
                        targetFormat |-> targetFormat, input |-> message,
                        status |-> "threw", error |-> "NotRegistered"]
            /\ UNCHANGED <<message, clock>>
  /\ UNCHANGED <<registry, builder, coreVars>>

FindAt(predicate, format) ==
  ReadsObjects("find", format, predicate,
    findAt(message.heap, message.ref, predicate, registry[format]))

FilterAt(predicate, format) ==
  StampsObjects("filter", format, predicate,
    filterAt(message.heap, message.ref, predicate, registry[format], clock))

MapAt(mapper, format) ==
  ReadsObjects("map", format, mapper,
    mapAt(message.heap, message.ref, mapper, registry[format]))

TransformItemsAt(transformer, format) ==
  StampsObjects("transformItems", format, transformer,
    transformItemsAt(message.heap, message.ref, transformer,
                     registry[format], clock))

GroupByAt(keyExtractor, format) ==
  ReadsObjects("groupBy", format, keyExtractor,
    groupByAt(message.heap, message.ref, keyExtractor, registry[format]))

ReduceAt(initialValue, format) ==
  /\ call = NoCall
  /\ IF IsRegistered(registry, format)
       THEN \E out \in {reduceAt(message.heap, message.ref, initialValue,
                                 registry[format])} :
              /\ call' = Returned("reduce", format, initialValue, out.value)
              /\ message' = [heap |-> out.heap, ref |-> message.ref]
       ELSE /\ call' = Threw("reduce", format, initialValue)
            /\ UNCHANGED message
  /\ UNCHANGED <<registry, clock, builder, coreVars>>

\* When the comparator throws, sort throws what it threw; the items and
\* their copy are allocated by then
SortAt(comparator, format) ==
  \E threw \in {IsRegistered(registry, format)
                /\ sortedAt(message.heap, message.ref, comparator,
                            registry[format]).status = "threw"} :
    IF threw
      THEN \E copy \in {Then(findItemsAt(message.heap, registry[format],
                                         message.heap[message.ref].data),
                             LAMBDA items :
                               Alloc(items.heap,
                                 [elems |->
                                    items.heap[items.ref].elems]))} :
             /\ call = NoCall
             /\ call' = [op |-> "sort", format |-> format,
                         arg |-> comparator, input |-> message,
                         status |-> "threw", error |-> "TypeError"]
             /\ message' = [heap |-> copy.heap, ref |-> message.ref]
             /\ UNCHANGED <<registry, clock, builder, coreVars>>
      ELSE StampsObjects("sort", format, comparator,
             sortAt(message.heap, message.ref, comparator, registry[format],
                    clock))

TakeAt(n, format) ==
  StampsObjects("take", format, n,
    takeAt(message.heap, message.ref, n, registry[format], clock))

SkipAt(n, format) ==
  StampsObjects("skip", format, n,
    skipAt(message.heap, message.ref, n, registry[format], clock))

\* The calls that return an envelope
EnvelopeCalls ==
  {"filter", "transformItems", "sort", "take", "skip", "transformMessage"}

\* The caller goes on with the envelope the call returned
KeepResult ==
  /\ call.op \in EnvelopeCalls
  /\ call.status = "returned"
  /\ Len(message.heap) <= MaxCells
  /\ message' = [heap |-> message.heap, ref |-> call.result]
  /\ call' = NoCall
  /\ UNCHANGED <<registry, clock, builder, coreVars>>

\* The caller drops what the call returned or threw; the objects the call
\* allocated, the last ones of the heap, go with it
DropResult ==
  /\ call # NoCall
  /\ message' = [heap |-> SubSeq(message.heap, 1, Len(call.input.heap)),
                 ref |-> message.ref]
  /\ call' = NoCall
  /\ UNCHANGED <<registry, clock, builder, coreVars>>

\* A container with two rows, one with a user, a field and an attribute,
\* one with a comment between two rows and a nested collection, and one
\* with a row without a name, which the comparator cannot take as its
\* first argument
ObjectDocs ==
  MainDocs \cup
    {WithChildren(DataRoot,
       <<Row("Al"), createFNode(COMMENT, "note", "n"), Row("Bo"),
         WithChildren(createFNode(COLLECTION, "list", Undefined),
                      <<Row("Al")>>)>>),
     WithChildren(DataRoot, <<Row("Al"), createFNode(FIELD, "row", "x")>>)}

ObjectFormats == {FMT_JSON, FMT_CSV, FMT_XML, FMT_YAML}

InitObjects ==
  /\ registry = RegistryOf(BaselineRecords)
  /\ message \in {StoreMessage(createMessageFromFNode(d, "ctx", 0)) :
                    d \in ObjectDocs}
  /\ call = NoCall
  /\ clock = 1
  /\ builder = NoBuilder
  /\ CoreIdle

NextObjects ==
  \/ \E s, t \in ObjectFormats : TransformAt(s, t)
  \/ \E s, t \in ObjectFormats : TransformMessageAt(s, t)
  \/ \E f \in ObjectFormats : FindAt("isAl", f)
  \/ \E f \in ObjectFormats : FilterAt("isAl", f)
  \/ \E f \in ObjectFormats : MapAt("byName", f)
  \/ \E t \in Transformers, f \in ObjectFormats : TransformItemsAt(t, f)
  \/ \E f \in ObjectFormats : GroupByAt("byName", f)
  \/ \E f \in ObjectFormats : ReduceAt(0, f)
  \/ \E c \in Comparators, f \in ObjectFormats : SortAt(c, f)
  \/ \E f \in ObjectFormats : TakeAt(1, f)
  \/ \E f \in ObjectFormats : SkipAt(1, f)
  \/ KeepResult
  \/ DropResult

SpecObjects == InitObjects /\ [][NextObjects]_vars

\* ------------------------------------------------------------------------
\* ResourceManager
\*   resources.callbacks   cleanupCallbacks, a Set in insertion order
\*   resources.adapters    managedAdapters
\*   resources.pc          "running" while a call of cleanup() is in its
\*                         for-of loop, which nothing interleaves with,
\*                         else "idle"
\*   resources.cursor      the position of the for-of loop
\*   resources.awaiting    the calls of cleanup() suspended at
\*                         await Promise.allSettled
\*   resources.cleanups    the calls of cleanup() made
\*   resources.completed   the calls of cleanup() that have returned
\*   resources.last        "cleanup" when the last step was the return of
\*                         cleanup(), else "other"
\*   resources.invoked     the callbacks called so far, in order
\*   resources.everAdapters, everCallbacks
\*                         what the callers registered since construction
\*   resources.registrations  the number of register calls made
\* A callback object is [fn |-> name] for a function the caller passed and
\* [stop |-> adapter, serial |-> k] for the arrow function the k-th
\* register call created around adapter.stop.
\* ------------------------------------------------------------------------
MaxRegistrations == 3
MaxCleanups == 2

\* "plain" is an adapter without a stop method
ManagedAdapters == {"db", "out", "plain"}
HasStop(adapter) == adapter # "plain"

\* "cbThrows" throws when called, "cbAsync" returns a promise
CleanupCallbacks == {"cbThrows", "cbAsync"}

\* Set.prototype.add on a Set kept in insertion order
SetAdd(set, x) ==
  IF \E i \in 1..Len(set) : set[i] = x THEN set ELSE Append(set, x)

CanRegister ==
  /\ resources.pc = "idle"
  /\ resources.registrations < MaxRegistrations

registerCleanup(rm, callback) ==
  [rm EXCEPT !.callbacks = SetAdd(@, callback)]

RegisterCleanup(fn) ==
  /\ CanRegister
  /\ resources' =
       [registerCleanup(resources, [fn |-> fn])
          EXCEPT !.everCallbacks = @ \cup {fn},
                 !.registrations = @ + 1,
                 !.last = "other"]
  /\ UNCHANGED <<semanticVars, extensions, pipeline>>

\* registerAdapter(adapter): the adapter joins managedAdapters and, when it
\* has a stop method, a new arrow function around it joins the callbacks
registerAdapter(rm, adapter) ==
  LET added == [rm EXCEPT !.adapters = @ \cup {adapter}]
      hooked ==
        IF HasStop(adapter)
          THEN registerCleanup(added,
                 [stop |-> adapter, serial |-> rm.registrations + 1])
          ELSE added
  IN  [hooked EXCEPT !.everAdapters = @ \cup {adapter},
                     !.registrations = @ + 1,
                     !.last = "other"]

RegisterAdapter(adapter) ==
  /\ CanRegister
  /\ resources' = registerAdapter(resources, adapter)
  /\ UNCHANGED <<semanticVars, extensions, pipeline>>

\* cleanup() is called and enters its loop: at any time, also while an
\* earlier call is suspended at its await and after one has returned
CleanupBegin ==
  /\ resources.pc = "idle"
  /\ resources.cleanups < MaxCleanups
  /\ resources' = [resources EXCEPT !.pc = "running", !.cursor = 1,
                                    !.cleanups = @ + 1, !.last = "other"]
  /\ UNCHANGED <<semanticVars, extensions, pipeline>>

\* One round of the loop: the callback is called inside try/catch; what it
\* throws is logged and what it returns is collected if it is a promise
CleanupCall ==
  /\ resources.pc = "running"
  /\ resources.cursor <= Len(resources.callbacks)
  /\ resources' =
       [resources EXCEPT
          !.invoked = Append(@, resources.callbacks[resources.cursor]),
          !.cursor = @ + 1]
  /\ UNCHANGED <<semanticVars, extensions, pipeline>>

\* The loop is over: await Promise.allSettled(cleanupPromises)
CleanupAwait ==
  /\ resources.pc = "running"
  /\ resources.cursor > Len(resources.callbacks)
  /\ resources' = [resources EXCEPT !.pc = "idle", !.awaiting = @ + 1]
  /\ UNCHANGED <<semanticVars, extensions, pipeline>>

\* The promises of one suspended call have settled: both sets are cleared
\* and the call returns
CleanupFinish ==
  /\ resources.pc = "idle"
  /\ resources.awaiting > 0
  /\ resources' = [resources EXCEPT !.callbacks = <<>>, !.adapters = {},
                                    !.awaiting = @ - 1,
                                    !.completed = @ + 1,
                                    !.last = "cleanup"]
  /\ UNCHANGED <<semanticVars, extensions, pipeline>>

\* The variables of the semantic layer while only the core classes act
SemanticIdle ==
  /\ registry = <<>>
  /\ message = createMessageFromFNode(DataRoot, "ctx", 0)
  /\ call = NoCall
  /\ clock = 1
  /\ builder = NoBuilder

\* new ResourceManager()
NewResourceManager ==
  [pc |-> "idle", callbacks |-> <<>>, adapters |-> {},
   cursor |-> 0, awaiting |-> 0, cleanups |-> 0,
   completed |-> 0, last |-> "other", invoked |-> <<>>,
   everAdapters |-> {}, everCallbacks |-> {},
   registrations |-> 0]

InitResources ==
  /\ SemanticIdle
  /\ resources = NewResourceManager
  /\ extensions = NoExtensions
  /\ pipeline = NoPipeline

NextResources ==
  \/ \E fn \in CleanupCallbacks : RegisterCleanup(fn)
  \/ \E a \in ManagedAdapters : RegisterAdapter(a)
  \/ CleanupBegin
  \/ CleanupCall
  \/ CleanupAwait
  \/ CleanupFinish

SpecResources == InitResources /\ [][NextResources]_vars

\* ------------------------------------------------------------------------
\* ExtensionRegistry (static), with ConfigurationManager.globalDefaults,
\* the transformation engine it was given and PipeFitter.prototype
\*   extensions.registered  the Map extensions, name -> extension
\*   extensions.engine      <<>> while transformationEngine is undefined,
\*                          <<registry>> once setTransformationEngine ran
\*   extensions.defaults    ConfigurationManager.globalDefaults
\*   extensions.methods     the methods set on PipeFitter.prototype
\*   extensions.tasks       the calls of the async register(), each with
\*                          its extension, where it is suspended (pc), its
\*                          outcome and what it has written so far
\*   extensions.succeeded   per name, the register calls that resolved
\*                          since the name was last unregistered
\* An extension is a record with name and version and the OPTIONAL fields
\* config, formats, methods, initialize; initialize is "resolves" or
\* "rejects", the outcome of the promise it returns.
\* A configuration is a function from its keys to values; a value is
\* Object(fields) for a plain object and Primitive(v) for anything else
\* (a string, a number, an array, null).
\* ------------------------------------------------------------------------
MaxRegisterCalls == 2

Primitive(v) == [primitive |-> v]
Object(fields) == [object |-> fields]

\* value !== null && typeof value === 'object' && !Array.isArray(value)
IsPlainObject(value) == "object" \in DOMAIN value

\* { logLevel: LogLevel.INFO }
DEFAULT_CONFIG == [logLevel |-> Primitive("INFO")]

\* The keys of source replace those of target, except that two plain
\* objects under one key are merged in turn
RECURSIVE deepMerge(_, _)
deepMerge(target, source) ==
  [k \in DOMAIN target \cup DOMAIN source |->
     IF k \notin DOMAIN source THEN target[k]
     ELSE IF k \in DOMAIN target
             /\ IsPlainObject(source[k]) /\ IsPlainObject(target[k])
       THEN Object(deepMerge(target[k].object, source[k].object))
     ELSE source[k]]

mergeExtensionDefaults(globalDefaults, extensionConfig) ==
  deepMerge(globalDefaults, extensionConfig)

\* (PipeFitter.prototype as any)[name] = method, for each method in turn
RECURSIVE registerMethods(_, _)
registerMethods(prototype, methods) ==
  IF methods = <<>> THEN prototype
  ELSE registerMethods(
         [k \in DOMAIN prototype \cup {Head(methods).name} |->
            IF k = Head(methods).name THEN Head(methods).implementation
            ELSE prototype[k]],
         Tail(methods))

\* engine.register(format) for each format in turn
RECURSIVE registerFormats(_, _)
registerFormats(reg, formats) ==
  IF formats = <<>> THEN reg
  ELSE registerFormats(registrySet(reg, Head(formats)), Tail(formats))

ExtensionPool ==
  {[name |-> "geo", version |-> "1"],
   [name |-> "geo", version |-> "2",
    config |-> [geo |-> Object([unit |-> Primitive("km")])],
    formats |-> <<PRUNE_SEMANTICS>>,
    methods |-> <<[name |-> "locate", implementation |-> "locate2"]>>,
    initialize |-> "resolves"],
   [name |-> "geo", version |-> "3",
    config |-> [logLevel |-> Primitive("DEBUG")],
    initialize |-> "rejects"],
   [name |-> "tab", version |-> "1",
    config |-> [geo |-> Object([depth |-> Primitive("3")])],
    methods |-> <<[name |-> "locate", implementation |-> "locateTab"]>>]}

Has(extension, field) == field \in DOMAIN extension

\* this.extensions.set(extension.name, extension): the call resolves
Resolve(state, i) ==
  LET ext == state.tasks[i].extension
  IN  [state EXCEPT
         !.registered = [n \in DOMAIN @ \cup {ext.name} |->
                           IF n = ext.name THEN ext ELSE @[n]],
         !.tasks[i].pc = "done",
         !.tasks[i].status = "resolved",
         !.succeeded[ext.name] = @ + 1]

\* "Initialize extension": initialize is called and its promise awaited
\* when the extension has one and the engine is set; otherwise the call
\* goes on to extensions.set
InitializeOrResolve(state, i) ==
  LET ext == state.tasks[i].extension
  IN  IF Has(ext, "initialize") /\ state.engine # <<>>
        THEN [state EXCEPT !.tasks[i].pc = "initialize"]
        ELSE Resolve(state, i)

\* register(extension) up to its first await, or to its end
RegisterExtension(ext) ==
  /\ Len(extensions.tasks) < MaxRegisterCalls
  /\ LET i == Len(extensions.tasks) + 1
         task == [extension |-> ext, pc |-> "start", status |-> "pending",
                  wrote |-> {}]
     IN  IF ext.name \in DOMAIN extensions.registered
           THEN extensions' =
                  [extensions EXCEPT
                     !.tasks = Append(@,
                       [task EXCEPT !.pc = "done", !.status = "rejected"]
                         @@ [error |-> "already registered"])]
           ELSE
             LET begun == [extensions EXCEPT !.tasks = Append(@, task)]
                 configured ==
                   IF Has(ext, "config")
                     THEN [begun EXCEPT
                             !.defaults =
                               mergeExtensionDefaults(@, ext.config),
                             !.tasks[i].wrote = @ \cup {"config"}]
                     ELSE begun
                 formatted ==
                   IF Has(ext, "formats") /\ configured.engine # <<>>
                     THEN [configured EXCEPT
                             !.engine =
                               <<registerFormats(@[1], ext.formats)>>,
                             !.tasks[i].wrote = @ \cup {"formats"}]
                     ELSE configured
             IN  extensions' =
                   IF Has(ext, "methods")
                     THEN [formatted EXCEPT !.tasks[i].pc = "import"]
                     ELSE InitializeOrResolve(formatted, i)
  /\ UNCHANGED <<semanticVars, resources, pipeline>>

\* The call resumes after await import('./pipefitter.js')
ResumeImport(i) ==
  /\ i \in 1..Len(extensions.tasks)
  /\ extensions.tasks[i].pc = "import"
  /\ LET ext == extensions.tasks[i].extension
         withMethods ==
           [extensions EXCEPT
              !.methods = registerMethods(@, ext.methods),
              !.tasks[i].wrote = @ \cup {"methods"}]
     IN  extensions' = InitializeOrResolve(withMethods, i)
  /\ UNCHANGED <<semanticVars, resources, pipeline>>

\* The call resumes after await extension.initialize(engine)
ResumeInitialize(i) ==
  /\ i \in 1..Len(extensions.tasks)
  /\ extensions.tasks[i].pc = "initialize"
  /\ extensions' =
       IF extensions.tasks[i].extension.initialize = "rejects"
         THEN [extensions EXCEPT
                 !.tasks[i] = [@ EXCEPT !.pc = "done", !.status = "rejected"]
                                @@ [error |-> "initializer"]]
         ELSE Resolve(extensions, i)
  /\ UNCHANGED <<semanticVars, resources, pipeline>>

\* unregister(name)
Unregister(name) ==
  /\ name \in DOMAIN extensions.registered
  /\ extensions' =
       [extensions EXCEPT
          !.registered = [n \in DOMAIN @ \ {name} |-> @[n]],
          !.succeeded[name] = 0]
  /\ UNCHANGED <<semanticVars, resources, pipeline>>

ExtensionNames == {e.name : e \in ExtensionPool}

\* setTransformationEngine(engine), the engine a new one with the baseline
\* formats registered
SetTransformationEngine ==
  /\ extensions' = [extensions EXCEPT
                      !.engine = <<RegistryOf(BaselineRecords)>>]
  /\ UNCHANGED <<semanticVars, resources, pipeline>>

\* clear(): every extension is removed and the defaults are reset
Clear ==
  /\ extensions' =
       [extensions EXCEPT
          !.registered = <<>>,
          !.defaults = DEFAULT_CONFIG,
          !.succeeded = [n \in ExtensionNames |-> 0]]
  /\ UNCHANGED <<semanticVars, resources, pipeline>>

\* ConfigurationManager.resetDefaults()
ResetDefaults ==
  /\ extensions' = [extensions EXCEPT !.defaults = DEFAULT_CONFIG]
  /\ UNCHANGED <<semanticVars, resources, pipeline>>

\* The configurations and methods callers pass directly
DirectConfigs == {e.config : e \in {x \in ExtensionPool : Has(x, "config")}}
DirectMethods ==
  UNION {{e.methods[i] : i \in 1..Len(e.methods)} :
           e \in {x \in ExtensionPool : Has(x, "methods")}}

\* ConfigurationManager.mergeExtensionDefaults(extensionConfig)
MergeExtensionDefaults(extensionConfig) ==
  /\ extensions' =
       [extensions EXCEPT
          !.defaults = mergeExtensionDefaults(@, extensionConfig)]
  /\ UNCHANGED <<semanticVars, resources, pipeline>>

\* PipeFitter.registerMethod(name, method, extensionConfig?); the
\* configuration is <<>> when none is passed
RegisterMethod(method, extensionConfig) ==
  /\ extensions' =
       [extensions EXCEPT
          !.defaults = IF extensionConfig = <<>> THEN @
                       ELSE mergeExtensionDefaults(@, extensionConfig[1]),
          !.methods = registerMethods(@, <<method>>)]
  /\ UNCHANGED <<semanticVars, resources, pipeline>>

InitExtensions ==
  /\ SemanticIdle
  /\ resources = NoResources
  /\ extensions = [registered |-> <<>>, engine |-> <<>>,
                   defaults |-> DEFAULT_CONFIG, methods |-> <<>>,
                   tasks |-> <<>>,
                   succeeded |-> [n \in ExtensionNames |-> 0]]
  /\ pipeline = NoPipeline

NextExtensions ==
  \/ \E ext \in ExtensionPool : RegisterExtension(ext)
  \/ \E i \in 1..MaxRegisterCalls : ResumeImport(i)
  \/ \E i \in 1..MaxRegisterCalls : ResumeInitialize(i)
  \/ \E name \in ExtensionNames : Unregister(name)
  \/ SetTransformationEngine
  \/ Clear
  \/ ResetDefaults
  \/ \E config \in DirectConfigs : MergeExtensionDefaults(config)
  \/ \E method \in DirectMethods,
        config \in {<<>>} \cup {<<c>> : c \in DirectConfigs} :
       RegisterMethod(method, config)

SpecExtensions == InitExtensions /\ [][NextExtensions]_vars

\* ------------------------------------------------------------------------
\* PipeFitter: the fluent calls
\*   pipeline.pipes     the PipeFitter objects made so far; each has its
\*                      message (<<>> for null, <<m>> for a message), the
\*                      reference of its context object and the pipe whose
\*                      branch() made it (origin, 0 for new PipeFitter())
\*   pipeline.contexts  the heap of Context objects: a message holds a
\*                      reference to its context, so that two messages can
\*                      share one; branchState is <<>> for undefined
\*   pipeline.last      the last call: its name, pipe, arguments, outcome
\*   pipeline.calls     the number of calls made
\*   resources          the ResourceManager of the first pipe, which the
\*                      context copy of branch() shares with every branch
\* A message is [data, context]; its metadata plays no part here.  The
\* data of a message is named by a string; "orders" is a container with
\* two children, every other data has none.
\* ------------------------------------------------------------------------
MaxPipes == 3
MaxCalls == 4

MergeStrategies == {"branch", "parent", "combine"}

\* (branch, parent) => branch, (branch, parent) => parent and
\* (branch, parent) => ({ ...parent, data: ... })
applyStrategy(strategy, branchMessage, parentMessage) ==
  CASE strategy = "branch" -> branchMessage
    [] strategy = "parent" -> parentMessage
    [] strategy = "combine" -> [parentMessage EXCEPT !.data = "merged"]

\* msg.data.children
DataChildren(data) ==
  IF data = "orders" THEN <<"order1", "order2">> ELSE <<>>

\* Hooks: "none" is a hook that is not given, "tag" is
\* (m) => m && { ...m, data: 'hooked' } and "seed" returns a message the
\* caller made on the context of the first pipe
NoHooks == [before |-> "none", after |-> "none"]
Hooks == {NoHooks,
          [before |-> "seed", after |-> "none"],
          [before |-> "none", after |-> "tag"]}

\* What the hook returns for the message (<<>> for null): <<>> for a
\* result that is not a message
applyHook(hook, m) ==
  CASE hook = "none" -> <<>>
    [] hook = "tag" ->
         IF m = <<>> THEN <<>> ELSE <<[m[1] EXCEPT !.data = "hooked"]>>
    [] hook = "seed" -> <<[data |-> "seed", context |-> 1]>>

\* const r = hook(m); if (r) m = r
Hooked(hook, m) ==
  IF applyHook(hook, m) = <<>> THEN m ELSE applyHook(hook, m)

\* (msg) => msg.data.name === 'order2' and (msg) => false
MessagePredicates == {"isOrder2", "never"}
applyMessagePredicate(predicate, msg) ==
  CASE predicate = "isOrder2" -> msg.data = "order2"
    [] predicate = "never" -> FALSE

\* (msg) => ({ ...msg, data: ... }) and
\* (msg) => msg.context.branchState.parentMessage, which throws a TypeError
\* when the context has no branch state
Mappers == {"setData", "toParent"}
mapperThrows(state, mapper, msg) ==
  mapper = "toParent" /\ state.contexts[msg.context].branchState = <<>>
applyMapper(state, mapper, msg) ==
  CASE mapper = "setData" -> [msg EXCEPT !.data = "mapped"]
    [] mapper = "toParent" ->
         state.contexts[msg.context].branchState[1].parentMessage

\* The adapter of the pipeline calls; handle returns the message with the
\* data it read or wrote
PipeAdapters == {"db"}
handle(adapter, msg) == [msg EXCEPT !.data = "loaded"]

\* createMessage(context)
createMessage(context) == [data |-> "root", context |-> context]

\* this.message?.context.branchState
BranchStateIn(state, i) ==
  IF state.pipes[i].message = <<>> THEN <<>>
  ELSE state.contexts[state.pipes[i].message[1].context].branchState

\* validateSource() throws
NoSource(op, i) ==
  [op |-> op, pipe |-> i, status |-> "threw", error |-> "No source set"]

\* A call on pipe i can be made
CanCall(i) ==
  /\ i \in 1..Len(pipeline.pipes)
  /\ pipeline.calls < MaxCalls

\* from(source, options, hooks): source is "orders" for an FNode, else an
\* adapter, which is registered with the resource manager
From(i, source, hooks) ==
  /\ CanCall(i)
  /\ source \in PipeAdapters => resources.registrations < MaxRegistrations
  /\ LET initialMessage == applyHook(hooks.before, <<>>)
         made ==
           IF source \in PipeAdapters
             THEN handle(source,
                    IF initialMessage = <<>>
                      THEN createMessage(pipeline.pipes[i].context)
                      ELSE initialMessage[1])
           ELSE IF initialMessage = <<>>
             THEN [data |-> source, context |-> pipeline.pipes[i].context]
           ELSE initialMessage[1]
     IN  /\ pipeline' =
              [pipeline EXCEPT
                 !.pipes[i].message = Hooked(hooks.after, <<made>>),
                 !.calls = @ + 1,
                 !.last = [op |-> "from", pipe |-> i, arg |-> source,
                           hooks |-> hooks, status |-> "returned"]]
         /\ resources' = IF source \in PipeAdapters
                           THEN registerAdapter(resources, source)
                           ELSE resources
  /\ UNCHANGED <<semanticVars, extensions>>

\* to(target, options, hooks): the adapter is registered and handles the
\* message; the pipe keeps its message
To(i, target, hooks) ==
  /\ CanCall(i)
  /\ IF pipeline.pipes[i].message = <<>>
       THEN /\ pipeline' = [pipeline EXCEPT !.calls = @ + 1,
                                    !.last = NoSource("to", i)]
            /\ UNCHANGED resources
       ELSE /\ resources.registrations < MaxRegistrations
            /\ resources' = registerAdapter(resources, target)
            /\ LET currentMessage ==
                     Hooked(hooks.before, pipeline.pipes[i].message)
                   result == <<handle(target, currentMessage[1])>>
               IN  pipeline' =
                     [pipeline EXCEPT
                        !.calls = @ + 1,
                        !.last = [op |-> "to", pipe |-> i, arg |-> target,
                                  hooks |-> hooks, status |-> "returned",
                                  result |-> Hooked(hooks.after, result)[1]]]
  /\ UNCHANGED <<semanticVars, extensions>>

\* map(fn, hooks); what fn throws leaves the message of the before hook
PipeMap(i, mapper, hooks) ==
  /\ CanCall(i)
  /\ pipeline' =
       IF pipeline.pipes[i].message = <<>>
         THEN [pipeline EXCEPT !.calls = @ + 1,
                               !.last = NoSource("map", i)]
         ELSE
           LET before == Hooked(hooks.before, pipeline.pipes[i].message)
           IN  IF mapperThrows(pipeline, mapper, before[1])
                 THEN [pipeline EXCEPT
                         !.pipes[i].message = before,
                         !.calls = @ + 1,
                         !.last = [op |-> "map", pipe |-> i, arg |-> mapper,
                                   hooks |-> hooks, status |-> "threw",
                                   error |-> "TypeError"]]
                 ELSE [pipeline EXCEPT
                         !.pipes[i].message =
                           Hooked(hooks.after,
                                  <<applyMapper(pipeline, mapper, before[1])>>),
                         !.calls = @ + 1,
                         !.last = [op |-> "map", pipe |-> i, arg |-> mapper,
                                   hooks |-> hooks, status |-> "returned"]]
  /\ UNCHANGED <<semanticVars, resources, extensions>>

\* filter(predicate, hooks): a message the predicate refuses gets the
\* VALUE node 'filtered' as its data
PipeFilter(i, predicate, hooks) ==
  /\ CanCall(i)
  /\ pipeline' =
       IF pipeline.pipes[i].message = <<>>
         THEN [pipeline EXCEPT !.calls = @ + 1,
                               !.last = NoSource("filter", i)]
         ELSE
           LET before == Hooked(hooks.before, pipeline.pipes[i].message)
               kept == IF applyMessagePredicate(predicate, before[1])
                         THEN before
                         ELSE <<[before[1] EXCEPT !.data = "filtered"]>>
           IN  [pipeline EXCEPT
                  !.pipes[i].message = Hooked(hooks.after, kept),
                  !.calls = @ + 1,
                  !.last = [op |-> "filter", pipe |-> i, arg |-> predicate,
                            hooks |-> hooks, status |-> "returned"]]
  /\ UNCHANGED <<semanticVars, resources, extensions>>

\* The mapper of find: the first child the predicate accepts becomes the
\* data, or the message itself is tested when it has no children
found(predicate, msg) ==
  LET children == DataChildren(msg.data)
      accepted == {k \in 1..Len(children) :
                     applyMessagePredicate(predicate,
                                           [msg EXCEPT !.data = children[k]])}
  IN  IF Len(children) > 0
        THEN IF accepted = {} THEN [msg EXCEPT !.data = "notfound"]
             ELSE [msg EXCEPT
                     !.data = children[CHOOSE k \in accepted :
                                         \A j \in accepted : k <= j]]
      ELSE IF applyMessagePredicate(predicate, msg) THEN msg
      ELSE [msg EXCEPT !.data = "notfound"]

\* find(predicate, hooks) is map with that mapper
PipeFind(i, predicate, hooks) ==
  /\ CanCall(i)
  /\ pipeline' =
       IF pipeline.pipes[i].message = <<>>
         THEN [pipeline EXCEPT !.calls = @ + 1,
                               !.last = NoSource("find", i)]
         ELSE
           LET before == Hooked(hooks.before, pipeline.pipes[i].message)
           IN  [pipeline EXCEPT
                  !.pipes[i].message =
                    Hooked(hooks.after, <<found(predicate, before[1])>>),
                  !.calls = @ + 1,
                  !.last = [op |-> "find", pipe |-> i, arg |-> predicate,
                            hooks |-> hooks, status |-> "returned"]]
  /\ UNCHANGED <<semanticVars, resources, extensions>>

\* branch(predicate, hooks)
Branch(i, hooks) ==
  /\ CanCall(i)
  /\ Len(pipeline.pipes) < MaxPipes
  /\ IF pipeline.pipes[i].message = <<>>
       THEN pipeline' = [pipeline EXCEPT !.calls = @ + 1,
                                    !.last = NoSource("branch", i)]
       ELSE
         LET currentMessage ==
               Hooked(hooks.before, pipeline.pipes[i].message)[1]
             n == Len(pipeline.contexts)
             \* { ...this.context }
             pipeContext == pipeline.contexts[pipeline.pipes[i].context]
             \* { ...currentMessage.context, branchState }
             messageContext ==
               [pipeline.contexts[currentMessage.context] EXCEPT
                  !.branchState = <<[parentMessage |-> currentMessage]>>]
             branchMessage == <<[currentMessage EXCEPT !.context = n + 2]>>
             branchPipeline ==
               [message |-> Hooked(hooks.after, branchMessage),
                context |-> n + 1, origin |-> i]
         IN  pipeline' =
               [pipeline EXCEPT
                  !.pipes = Append(@, branchPipeline),
                  !.contexts = @ \o <<pipeContext, messageContext>>,
                  !.calls = @ + 1,
                  !.last = [op |-> "branch", pipe |-> i, hooks |-> hooks,
                            status |-> "returned",
                            result |-> Len(pipeline.pipes) + 1]]
  /\ UNCHANGED <<semanticVars, resources, extensions>>

\* Mutant: the branch state of the merged message is left as it is
merged_keepsBranchState(state, i, strategy, hooks) ==
  LET branchMessage == Hooked(hooks.before, state.pipes[i].message)[1]
      parentMessage ==
        state.contexts[state.pipes[i].message[1].context]
          .branchState[1].parentMessage
      result == applyStrategy(strategy, branchMessage, parentMessage)
  IN  [state EXCEPT !.pipes[i].message = Hooked(hooks.after, <<result>>)]

\* The body of merge(strategy, hooks) once the branch state was found:
\* this.message = strategy(branchMessage, parentMessage);
\* this.message.context.branchState = undefined; then the after hook
merged(state, i, strategy, hooks) ==
  LET branchMessage == Hooked(hooks.before, state.pipes[i].message)[1]
      parentMessage ==
        state.contexts[state.pipes[i].message[1].context]
          .branchState[1].parentMessage
      result == applyStrategy(strategy, branchMessage, parentMessage)
  IN  [state EXCEPT !.pipes[i].message = Hooked(hooks.after, <<result>>),
                    !.contexts[result.context].branchState = <<>>]

\* merge(strategy, hooks)
Merge(i, strategy, hooks) ==
  /\ CanCall(i)
  /\ pipeline' =
       IF BranchStateIn(pipeline, i) = <<>>
         THEN [pipeline EXCEPT
                 !.calls = @ + 1,
                 !.last = [op |-> "merge", pipe |-> i, arg |-> strategy,
                           hooks |-> hooks, status |-> "threw",
                           error |-> "No active branch to merge"]]
         ELSE [merged(pipeline, i, strategy, hooks) EXCEPT
                 !.calls = @ + 1,
                 !.last = [op |-> "merge", pipe |-> i, arg |-> strategy,
                           hooks |-> hooks, status |-> "returned"]]
  /\ UNCHANGED <<semanticVars, resources, extensions>>

\* new PipeFitter(): no message, a context of its own
InitPipeline ==
  /\ SemanticIdle
  /\ resources = NewResourceManager
  /\ extensions = NoExtensions
  /\ pipeline = [pipes |-> <<[message |-> <<>>, context |-> 1,
                              origin |-> 0]>>,
                 contexts |-> <<[branchState |-> <<>>]>>,
                 last |-> [op |-> "new"], calls |-> 0]

NextPipeline ==
  \/ \E i \in 1..MaxPipes, source \in {"orders"} \cup PipeAdapters,
        hooks \in Hooks : From(i, source, hooks)
  \/ \E i \in 1..MaxPipes, target \in PipeAdapters, hooks \in Hooks :
       To(i, target, hooks)
  \/ \E i \in 1..MaxPipes, mapper \in Mappers, hooks \in Hooks :
       PipeMap(i, mapper, hooks)
  \/ \E i \in 1..MaxPipes, predicate \in MessagePredicates, hooks \in Hooks :
       PipeFilter(i, predicate, hooks)
  \/ \E i \in 1..MaxPipes, predicate \in MessagePredicates, hooks \in Hooks :
       PipeFind(i, predicate, hooks)
  \/ \E i \in 1..MaxPipes, hooks \in Hooks : Branch(i, hooks)
  \/ \E i \in 1..MaxPipes, strategy \in MergeStrategies, hooks \in Hooks :
       Merge(i, strategy, hooks)

SpecPipeline == InitPipeline /\ [][NextPipeline]_vars

\* ------------------------------------------------------------------------
\* Properties
\* ------------------------------------------------------------------------
\* Every node of a tree, through children and attribute lists
RECURSIVE AllNodes(_)
AllNodes(n) ==
  {n} \cup UNION {AllNodes(ChildrenOrEmpty(n)[i]) :
                    i \in 1..Len(ChildrenOrEmpty(n))}
      \cup UNION {AllNodes(AttributesOrEmpty(n)[i]) :
                    i \in 1..Len(AttributesOrEmpty(n))}

\* The nodes that are members of some children list of the tree
ChildListMembers(n) ==
  UNION {Range(ChildrenOrEmpty(m)) : m \in AllNodes(n)}

\* The nodes that are members of some attribute list of the tree
AttributeListMembers(n) ==
  UNION {Range(AttributesOrEmpty(m)) : m \in AllNodes(n)}

\* The subtree holds a Value leaf or an item (a Record in a children list)
RECURSIVE HoldsLeafOrItem(_)
HoldsLeafOrItem(n) ==
  \/ n.type = VALUE
  \/ \E i \in 1..Len(ChildrenOrEmpty(n)) :
       n.children[i].type = RECORD \/ HoldsLeafOrItem(n.children[i])
  \/ \E i \in 1..Len(AttributesOrEmpty(n)) :
       HoldsLeafOrItem(n.attributes[i])

\* r is the node t after the round trip, and below r every Value leaf of t
\* is found with its value at the same path and every item of t at the
\* same index among its siblings
RECURSIVE KeptIn(_, _)
KeptIn(t, r) ==
  /\ r.id = t.id
  /\ t.type = VALUE => r.value = t.value /\ r.name = t.name
  /\ \A i \in 1..Len(ChildrenOrEmpty(t)) :
       (t.children[i].type = RECORD \/ HoldsLeafOrItem(t.children[i]))
         => /\ i <= Len(ChildrenOrEmpty(r))
            /\ KeptIn(t.children[i], r.children[i])
            /\ t.children[i].type = RECORD => r.children[i].type = RECORD
  /\ \A i \in 1..Len(AttributesOrEmpty(t)) :
       HoldsLeafOrItem(t.attributes[i])
         => /\ i <= Len(AttributesOrEmpty(r))
            /\ KeptIn(t.attributes[i], r.attributes[i])

\* Every kind of the tree is a key of the format's kind->role table
BuiltUnder(t, semantics) ==
  \A n \in AllNodes(t) : n.type \in DOMAIN semantics.typeToRole

RoundTripFormats == {FMT_JSON, FMT_XML}

IsRoundTrip ==
  /\ call.op = "transformBack"
  /\ call.sourceFormat \in RoundTripFormats
  /\ call.targetFormat \in RoundTripFormats
  /\ BuiltUnder(call.input.data, registry[call.sourceFormat])

\* C1 as stated: for F, G among JSON-like and XML-like and every tree t
\* built under F's conventions, convert(convert(t, F, G), G, F) holds every
\* Value leaf of t with its value at the same path and every item of t at
\* the same index among its siblings.
C1_RoundTripKeepsLeavesAndItems ==
  IsRoundTrip => KeptIn(call.input.data, call.result)

\* C1 amended: the same, for the trees t in which no children list holds
\* a Comment node.
C1_RoundTripWithoutCommentChildren ==
  (IsRoundTrip
   /\ \A n \in ChildListMembers(call.input.data) : n.type # COMMENT)
    => KeptIn(call.input.data, call.result)

\* A JSON -> XML -> JSON round trip of a tree whose second child is an item
\* that holds a Value leaf
C1_Witness ==
  /\ IsRoundTrip
  /\ call.sourceFormat = FMT_JSON
  /\ call.targetFormat = FMT_XML
  /\ \A n \in ChildListMembers(call.input.data) : n.type # COMMENT
  /\ \E n \in ChildListMembers(call.input.data) :
       n.type = RECORD /\ HasChildren(n) /\ n.children[1].type = VALUE
  /\ KeptIn(call.input.data, call.result)

\* The structural categories of the rule table, the role each one governs
\* and the kind that stands for it
Categories == {"collections", "records", "attributes", "comments"}
CategoryRole == [collections |-> ROLE_CONTAINER, records |-> ROLE_ITEM,
                 attributes |-> ROLE_METADATA, comments |-> ROLE_ANNOTATION]
CategoryKind == [collections |-> COLLECTION, records |-> RECORD,
                 attributes |-> ATTRIBUTES, comments |-> COMMENT]

DroppedCategories(semantics) ==
  {c \in Categories : semantics.transformationRules[c] = DROP}

\* The role the source format gives the input node with this identifier
SourceRole(input, semantics, id) ==
  LET n == CHOOSE m \in AllNodes(input) : m.id = id
  IN  IF n.type \in DOMAIN semantics.typeToRole
        THEN semantics.typeToRole[n.type] ELSE ROLE_VALUE

\* The output node n is a node of category c: it has the kind of the
\* category and stems from an input node with the role of the category
OfCategory(n, c, input, sourceSemantics) ==
  /\ n.type = CategoryKind[c]
  /\ SourceRole(input, sourceSemantics, n.id) = CategoryRole[c]

IsConvert == call.op = "transform" /\ call.status = "returned"

\* C2 as stated: when the target format's strategy for a category is Drop,
\* the node convert returns holds no node of that category anywhere below
\* it, in a children list or in an attribute list.
C2_DropLeavesNoNodeOfCategory ==
  IsConvert =>
    \A c \in DroppedCategories(registry[call.targetFormat]) :
      \A n \in ChildListMembers(call.result)
               \cup AttributeListMembers(call.result) :
        ~OfCategory(n, c, call.input.data, registry[call.sourceFormat])

\* C2 amended: when the target format's strategy for a category is Drop, no
\* children list of the returned tree holds a node that stems from an input
\* node with the role of that category, and when the attributes strategy is
\* Drop no node of the returned tree has an attribute list.
C2_DropLeavesNoChildOfCategory ==
  IsConvert =>
    /\ \A c \in DroppedCategories(registry[call.targetFormat]) :
         \A n \in ChildListMembers(call.result) :
           SourceRole(call.input.data, registry[call.sourceFormat], n.id)
             # CategoryRole[c]
    /\ registry[call.targetFormat].transformationRules.attributes = DROP
         => \A n \in AllNodes(call.result) : ~HasAttributes(n)

\* A conversion into a format that drops comments, of a tree that holds a
\* comment below a child that is kept
C2_Witness ==
  /\ IsConvert
  /\ call.sourceFormat = FMT_XML
  /\ call.targetFormat = FMT_JSON
  /\ \E n \in ChildListMembers(call.input.data) :
       /\ n.type = ATTRIBUTES
       /\ HasChildren(n)
       /\ n.children[1].type = COMMENT
       /\ \E r \in ChildListMembers(call.result) :
            r.id = n.id /\ r.children = <<>>

IsNavigate(format) ==
  /\ call.op = "navigatePath"
  /\ call.status = "returned"
  /\ call.format = format

\* The children of the node that are named "row"
RowsOf(node) ==
  SelectSeq(ChildrenOrEmpty(node), LAMBDA child : child.name = "row")

\* The first child of the row with this name, as a navigation result
FieldOf(row, name) ==
  LET i == FindFirstIndex(ChildrenOrEmpty(row),
                          LAMBDA child : child.name = name)
  IN  IF i = 0 THEN <<>> ELSE <<row.children[i]>>

\* C3: under the CSV-like format, for a root whose "row" children each hold
\* a child named c, navigate-path(root, ["row", k, c]) with k all digits
\* returns the child c of the k-th (zero-based) row when k is below the
\* number of rows, and absent otherwise.
C3_CsvRowIndexSelectsRow ==
  (/\ IsNavigate(FMT_CSV)
   /\ Len(call.arg) = 3
   /\ call.arg[1] = "row"
   /\ call.arg[2] \in {"1", "2"}
   /\ call.arg[3] = "name"
   /\ Len(RowsOf(call.input.data)) > 0
   /\ \A i \in 1..Len(RowsOf(call.input.data)) :
        FieldOf(RowsOf(call.input.data)[i], "name") # <<>>)
    => LET rows == RowsOf(call.input.data)
           k == IF call.arg[2] = "1" THEN 1 ELSE 2
       IN  call.result = IF k < Len(rows)
                           THEN FieldOf(rows[k + 1], "name")
                           ELSE <<>>

\* C4: under the XML-like format, navigate-path(node, ["@a", ...]) returns
\* the attribute a of a node that has one, whether or not the node has
\* children; a segment without "@" is a child-name lookup, and a name that
\* matches no child gives absent.
C4_XmlAttributeSegment ==
  (IsNavigate(FMT_XML) /\ call.arg # <<>>)
    => LET node == call.input.data
       IN  /\ (call.arg[1] = "@id"
               /\ \E i \in 1..Len(AttributesOrEmpty(node)) :
                    node.attributes[i].name = "id")
                => call.result = <<IdAttribute>>
           /\ (call.arg[1] \in {"name", "missing"}
               /\ \A i \in 1..Len(ChildrenOrEmpty(node)) :
                    node.children[i].name # call.arg[1])
                => call.result = <<>>

\* The calls made on a query builder
BuilderCalls ==
  {"query.filter", "query.transformItems", "query.sort", "query.take",
   "query.skip", "query.execute", "query.map", "query.count",
   "query.groupBy"}

\* The format identifiers a call is given: its arguments, or, for a call
\* on a query builder, the identifier the builder was constructed with
FormatsNamed ==
  IF "format" \in DOMAIN call THEN {call.format}
  ELSE IF "sourceFormat" \in DOMAIN call
    THEN {call.sourceFormat, call.targetFormat}
  ELSE IF call.op \in BuilderCalls THEN {builder.query.format}
  ELSE {}

NamesUnregistered ==
  /\ call.op \notin {"none", "register", "transformBack"}
  /\ \E f \in FormatsNamed : f \notin DOMAIN registry

\* C5 as stated: every call of the engine or of the operations that names
\* a format identifier without a registered record fails with NotRegistered.
C5_UnregisteredAlwaysFails ==
  NamesUnregistered => call.status = "threw" /\ call.error = "NotRegistered"

\* C5 amended: a call that is given a format identifier without a
\* registered record fails with NotRegistered when it looks the identifier
\* up, and three calls do not fail: isCompatible returns false, query()
\* returns a builder that holds the envelope and the identifier, and
\* execute() on that builder returns the envelope the builder holds; every
\* other call on that builder fails and leaves the builder as it was.
C5_UnregisteredFailsWhereLookedUp ==
  NamesUnregistered =>
    CASE call.op = "isCompatible" ->
           call.status = "returned" /\ call.result = FALSE
      [] call.op = "query" ->
           /\ call.status = "returned"
           /\ builder.query = [message |-> message, format |-> call.format]
           /\ builder.applied = <<>>
      [] call.op = "query.execute" ->
           /\ call.status = "returned"
           /\ call.result = message
           /\ builder.applied = <<>>
      [] OTHER ->
           /\ call.status = "threw" /\ call.error = "NotRegistered"
           /\ call.op \in BuilderCalls =>
                builder = [query |-> [message |-> message,
                                      format |-> builder.query.format],
                           applied |-> <<>>]

\* A count on a builder that query() returned for an identifier without a
\* record, while other identifiers have one
C5_Witness ==
  /\ call.op = "query.count"
  /\ builder.query.format \notin DOMAIN registry
  /\ DOMAIN registry # {}
  /\ call.status = "threw"
  /\ call.error = "NotRegistered"

IsCompatibleCall ==
  /\ call.op = "isCompatible"
  /\ call.sourceFormat \in DOMAIN registry
  /\ call.targetFormat \in DOMAIN registry

\* The roles of {Container, Item, Value} that are values of the
\* kind->role table
CoreRolesRead(semantics) ==
  {role \in {ROLE_CONTAINER, ROLE_ITEM, ROLE_VALUE} :
     \E kind \in DOMAIN semantics.typeToRole :
       semantics.typeToRole[kind] = role}

BaselineFormats == {FMT_JSON, FMT_CSV, FMT_XML}

\* C7: for registered S and T, isCompatible(S, T) is true exactly when
\* every role of {Container, Item, Value} that S's kind->role table gives
\* some kind is a key of T's role->kind table; it is true for every ordered
\* pair of the baseline formats.
C7_CompatibleIffCoreRolesCovered ==
  IsCompatibleCall =>
    /\ call.result
         = (CoreRolesRead(registry[call.sourceFormat])
              \subseteq DOMAIN registry[call.targetFormat].roleToType)
    /\ (/\ call.sourceFormat \in BaselineFormats
        /\ call.targetFormat \in BaselineFormats) => call.result = TRUE

\* isCompatible(json, csv) returned true
C7_Witness ==
  /\ IsCompatibleCall
  /\ call.sourceFormat = FMT_JSON
  /\ call.targetFormat = FMT_CSV
  /\ call.result = TRUE

\* C8 as stated: a registered format whose role->kind table has no entry
\* for Item is incompatible as a target from every registered source.
C8_NoItemTargetNeverCompatible ==
  (IsCompatibleCall
   /\ ROLE_ITEM \notin DOMAIN registry[call.targetFormat].roleToType)
    => call.result = FALSE

\* C8 amended: such a format is incompatible as a target from every
\* registered source whose kind->role table gives some kind the role Item.
C8_NoItemTargetIncompatibleFromItemSource ==
  (/\ IsCompatibleCall
   /\ ROLE_ITEM \notin DOMAIN registry[call.targetFormat].roleToType
   /\ ROLE_ITEM \in CoreRolesRead(registry[call.sourceFormat]))
    => call.result = FALSE

\* isCompatible(json, custom) returned false, custom lacking Item
C8_Witness ==
  /\ IsCompatibleCall
  /\ call.sourceFormat = FMT_JSON
  /\ ROLE_ITEM \notin DOMAIN registry[call.targetFormat].roleToType
  /\ call.result = FALSE

IsStructural == call.op \in StructuralOps /\ call.status = "returned"

\* C6: for every structural operation, and every sequence of them applied
\* one after another, every entry of the input envelope's metadata map is
\* in the returned envelope's metadata with the same content, alongside the
\* processing record of the operation just applied.
C6_MetadataAdditive ==
  IsStructural =>
    /\ \A k \in DOMAIN call.input.metadata :
         /\ k \in DOMAIN call.result.metadata
         /\ call.result.metadata[k] = call.input.metadata[k]
    /\ "processing" \in DOMAIN call.result.metadata

IsOp(op) ==
  /\ call.op = op
  /\ call.status = "returned"

\* locate-items of the format on a container
ItemsOf(format, data) == findItems(registry[format], data)

\* C9: for every envelope, registered format F and every n, the items of
\* take(env, n, F) followed by the items of skip(env, n, F) are the items
\* of env in the original order; for n >= 0 take yields the first
\* min(n, length) items.
C9_TakeSkipComplementary ==
  /\ IsOp("take") =>
       LET items == ItemsOf(call.format, call.input.data)
           taken == ItemsOf(call.format, call.result.data)
           skipped == ItemsOf(call.format,
                        skip(call.input, call.arg,
                             registry[call.format], clock).data)
       IN  /\ taken \o skipped = items
           /\ call.arg >= 0 =>
                /\ Len(taken) = (IF call.arg < Len(items)
                                   THEN call.arg ELSE Len(items))
                /\ \A i \in 1..Len(taken) : taken[i] = items[i]
  /\ IsOp("skip") =>
       LET items == ItemsOf(call.format, call.input.data)
           skipped == ItemsOf(call.format, call.result.data)
           taken == ItemsOf(call.format,
                      take(call.input, call.arg,
                           registry[call.format], clock).data)
       IN  taken \o skipped = items

\* take(env, 1, F) returned the first of two items
C9_Witness ==
  /\ IsOp("take")
  /\ call.arg = 1
  /\ Len(ItemsOf(call.format, call.input.data)) = 2
  /\ ItemsOf(call.format, call.result.data)
       = <<ItemsOf(call.format, call.input.data)[1]>>

\* skip(env, -1, F) returned the last of two items
C9_WitnessNegative ==
  /\ IsOp("skip")
  /\ call.arg = 0 - 1
  /\ Len(ItemsOf(call.format, call.input.data)) = 2
  /\ ItemsOf(call.format, call.result.data)
       = <<ItemsOf(call.format, call.input.data)[2]>>

\* C10: the groups of groupBy partition the item sequence: every item is in
\* the group of its key and in no other, no group holds anything else, and
\* the items of a group are in their original relative order.
C10_GroupByPartitions ==
  IsOp("groupBy") =>
    LET items == ItemsOf(call.format, call.input.data)
        KeyOf(item) == applyKeyExtractor(call.arg, registry[call.format], item)
    IN  /\ DOMAIN call.result = {KeyOf(items[i]) : i \in 1..Len(items)}
        /\ \A key \in DOMAIN call.result :
             call.result[key]
               = SelectSeq(items, LAMBDA item : KeyOf(item) = key)

\* groupBy returned two groups for two items with different keys
C10_Witness ==
  /\ IsOp("groupBy")
  /\ Len(ItemsOf(call.format, call.input.data)) = 2
  /\ Cardinality(DOMAIN call.result) = 2

\* C11: for every envelope and registered format F, count(env, F) is the
\* length of F's locate-items(env.data), and count(env, F, pred) is the
\* number of items of filter(env, pred, F); the envelope filter returns
\* holds as many items as count reports for the same predicate.
C11_CountAgreesWithItemsAndFilter ==
  /\ IsOp("count") =>
       call.result
         = IF call.arg = Undefined
             THEN Len(ItemsOf(call.format, call.input.data))
             ELSE Len(ItemsOf(call.format,
                        filter(call.input, call.arg,
                               registry[call.format], clock).data))
  /\ IsOp("filter") =>
       Len(ItemsOf(call.format, call.result.data))
         = count(call.input, registry[call.format], call.arg)

\* count with a predicate that one of two items satisfies returned 1
C11_Witness ==
  /\ IsOp("count")
  /\ call.arg = "isAl"
  /\ Len(ItemsOf(call.format, call.input.data)) = 2
  /\ call.result = 1

\* The strategy the rule table of a format gives a role
StrategyOfRole(role, semantics) ==
  IF \E c \in Categories : CategoryRole[c] = role
    THEN semantics.transformationRules[
           CHOOSE c \in Categories : CategoryRole[c] = role]
    ELSE PRESERVE

\* The identifiers a children list leaves in the output, in order: a
\* Flatten-tagged child gives way to what its own children leave, a
\* Drop-tagged child leaves nothing, any other child leaves itself
RECURSIVE SplicedIds(_, _, _)
SplicedIds(children, sourceSemantics, targetSemantics) ==
  IF children = <<>> THEN <<>>
  ELSE
    LET child == Head(children)
        role == MapGetOr(sourceSemantics.typeToRole, child.type, ROLE_VALUE)
        strategy == StrategyOfRole(role, targetSemantics)
        own == CASE strategy = FLATTEN ->
                      SplicedIds(ChildrenOrEmpty(child), sourceSemantics,
                                 targetSemantics)
                 [] strategy = DROP -> <<>>
                 [] OTHER -> <<child.id>>
    IN  own \o SplicedIds(Tail(children), sourceSemantics, targetSemantics)

FlattensSomething(semantics) ==
  \E c \in Categories : semantics.transformationRules[c] = FLATTEN

\* C12: when the target format's strategy for a child's category is
\* Flatten, the child is not in the output and its own children stand, in
\* their original order, where the child stood among its siblings
\* (recursively for Flatten-tagged grandchildren), the siblings before and
\* after it keeping their order.
C12_FlattenSplicesInPlace ==
  (IsConvert /\ FlattensSomething(registry[call.targetFormat])) =>
    LET source == registry[call.sourceFormat]
        target == registry[call.targetFormat]
    IN  /\ \A r \in AllNodes(call.result) :
             LET s == CHOOSE m \in AllNodes(call.input.data) : m.id = r.id
             IN  [i \in 1..Len(r.children) |-> r.children[i].id]
                   = SplicedIds(ChildrenOrEmpty(s), source, target)
        /\ \A s \in ChildListMembers(call.input.data) :
             StrategyOfRole(MapGetOr(source.typeToRole, s.type, ROLE_VALUE),
                            target) = FLATTEN
               => \A r \in ChildListMembers(call.result) : r.id # s.id

\* A conversion that flattened a collection standing between two siblings:
\* the output children are the first sibling, the two children of the
\* collection, the last sibling
C12_Witness ==
  /\ IsConvert
  /\ call.sourceFormat = FMT_XML
  /\ call.targetFormat = FMT_CUSTOM
  /\ Len(ChildrenOrEmpty(call.input.data)) = 3
  /\ call.input.data.children[1].type = VALUE
  /\ call.input.data.children[2].type = COLLECTION
  /\ Len(ChildrenOrEmpty(call.input.data.children[2])) = 2
  /\ call.input.data.children[3].type = COMMENT
  /\ [i \in 1..Len(call.result.children) |-> call.result.children[i].id]
       = <<"nc1", "nc2c1", "nc2c2", "nc3">>

\* A well-formed node as convert returns it: a kind of the Node model, the
\* scalar fields, a children list, and well-formed nodes in its lists
RECURSIVE IsFNode(_)
IsFNode(n) ==
  /\ {"type", "name", "value", "id", "ns", "label", "children"}
       \subseteq DOMAIN n
  /\ DOMAIN n \subseteq {"type", "name", "value", "id", "ns", "label",
                          "children", "parents", "attributes"}
  /\ n.type \in FNodeType
  /\ \A i \in 1..Len(n.children) : IsFNode(n.children[i])
  /\ HasParents(n) => \A i \in 1..Len(n.parents) : IsFNode(n.parents[i])
  /\ HasAttributes(n) =>
       \A i \in 1..Len(n.attributes) : IsFNode(n.attributes[i])

\* C13: when both format identifiers are registered, convert returns a
\* Node for every input tree, of any kinds and depth, its children,
\* attributes and back-references present or absent, and raises no failure.
C13_ConvertIsTotal ==
  (/\ call.op = "transform"
   /\ call.sourceFormat \in DOMAIN registry
   /\ call.targetFormat \in DOMAIN registry)
    => /\ call.status = "returned"
       /\ IsFNode(call.result)
       /\ HasParents(call.input.data)
            => /\ HasParents(call.result)
               /\ Len(call.result.parents) = Len(call.input.data.parents)

\* A conversion, json to csv, of a tree whose kinds the json table does not
\* all list and whose root has two back-references
C13_Witness ==
  /\ IsConvert
  /\ call.sourceFormat = FMT_JSON
  /\ call.targetFormat = FMT_CSV
  /\ ~BuiltUnder(call.input.data, JSON_SEMANTICS)
  /\ HasParents(call.input.data)
  /\ Len(call.input.data.parents) = 2
  /\ HasChildren(call.input.data)
  /\ IsFNode(call.result)

\* The references a node holds in its three lists
RefsOf(node) ==
  Range(ChildrenOrEmpty(node)) \cup Range(AttributesOrEmpty(node))
  \cup (IF HasParents(node) THEN Range(node.parents) ELSE {})

\* The references reached from those of S in at most n steps
RECURSIVE ReachedFrom(_, _, _)
ReachedFrom(heap, S, n) ==
  IF n = 0 THEN S
  ELSE ReachedFrom(heap, S \cup UNION {RefsOf(heap[r]) : r \in S}, n - 1)

\* Some node that the root reaches is reachable from itself
HasCycle(heap, root) ==
  \E r \in ReachedFrom(heap, {root}, Cardinality(DOMAIN heap)) :
    r \in ReachedFrom(heap, RefsOf(heap[r]), Cardinality(DOMAIN heap))

IsConvertGraph == call.op = "transformGraph"

\* C14: lift and lower descend into the back-references of a node as well
\* as into its children and attributes and keep no record of visited nodes:
\* on an input in which a node is reachable from itself convert never
\* returns (the descent goes on until the call stack is exhausted), and on
\* an input without such a node the returned root has a list for each list
\* of the input root.
C14_CyclicInputNeverReturns ==
  IsConvertGraph =>
    LET heap == call.input.data.heap
        root == call.input.data.ref
    IN  IF HasCycle(heap, root)
          THEN call.status # "returned"
          ELSE /\ call.status = "returned"
               /\ HasParents(call.result) = HasParents(heap[root])
               /\ HasAttributes(call.result) = HasAttributes(heap[root])
               /\ Len(call.result.children)
                    = Len(ChildrenOrEmpty(heap[root]))

\* A conversion of a root whose only child lists the root as its only
\* back-reference: the call did not return
C14_Witness ==
  /\ IsConvertGraph
  /\ DOMAIN call.input.data.heap["a"] \cap {"children", "parents", "attributes"}
       = {"children"}
  /\ call.input.data.heap["a"].children = <<"b">>
  /\ DOMAIN call.input.data.heap["b"] \cap {"children", "parents", "attributes"}
       = {"parents"}
  /\ call.input.data.heap["b"].parents = <<"a">>
  /\ call.status = "threw"
  /\ call.error = "RangeError"

\* The item sequence a structural operation computes from the items of its
\* input, before the container is rebuilt
NewItems ==
  LET semantics == registry[call.format]
      items == ItemsOf(call.format, call.input.data)
  IN  CASE call.op = "filter" -> find(call.input, call.arg, semantics)
        [] call.op = "transformItems" ->
             [i \in 1..Len(items) |-> applyTransformer(call.arg, items[i])]
        [] call.op = "sort" -> ArraySort(items, call.arg, semantics).value
        [] call.op = "take" -> Slice(items, 0, call.arg)
        [] call.op = "skip" -> Slice(items, call.arg, Len(items))

\* C15: after filter, transform, sort, take or skip under the CSV-like
\* format every child of the returned container is a new item named "row",
\* whatever its name was, so that CSV locate-items returns all the
\* children; under every other format the children of the returned
\* container are exactly the new item sequence, names unchanged.  The other
\* fields of the container are those of the input container.
C15_ReconstructionRenamesCsvItems ==
  IsStructural =>
    /\ \A k \in DOMAIN call.input.data \ {"children"} :
         /\ k \in DOMAIN call.result.data
         /\ call.result.data[k] = call.input.data[k]
    /\ HasChildren(call.result.data)
    /\ IF call.format = FMT_CSV
         THEN /\ Len(call.result.data.children) = Len(NewItems)
              /\ \A i \in 1..Len(NewItems) :
                   /\ call.result.data.children[i].name = "row"
                   /\ call.result.data.children[i]
                        = [NewItems[i] EXCEPT !.name = "row"]
              /\ ItemsOf(FMT_CSV, call.result.data)
                   = call.result.data.children
         ELSE call.result.data.children = NewItems

\* transform under the CSV-like format with a transformer that names the
\* items "entry": the two children of the returned container are named "row"
C15_Witness ==
  /\ IsOp("transformItems")
  /\ call.format = FMT_CSV
  /\ call.arg = "rename"
  /\ Len(NewItems) = 2
  /\ NewItems[1].name = "entry"
  /\ call.result.data.children[1].name = "row"
  /\ call.result.data.children[2].name = "row"

\* The envelope with the time of its processing record set aside
Untimed(msg) ==
  IF "processing" \in DOMAIN msg.metadata
    THEN [msg EXCEPT !.metadata.processing.timestamp = 0]
    ELSE msg

\* One stand-alone structural operation on an envelope
Standalone(step, msg, semantics, now) ==
  CASE step.op = "filter" -> filter(msg, step.arg, semantics, now)
    [] step.op = "transformItems" ->
         transformItems(msg, step.arg, semantics, now)
    [] step.op = "sort" -> sort(msg, step.arg, semantics, now)
    [] step.op = "take" -> take(msg, step.arg, semantics, now)
    [] step.op = "skip" -> skip(msg, step.arg, semantics, now)

\* The stand-alone operations of the steps applied left to right, each to
\* the result of the one before
RECURSIVE ApplyAll(_, _, _)
ApplyAll(msg, semantics, steps) ==
  IF steps = <<>> THEN msg
  ELSE ApplyAll(Standalone(Head(steps), msg, semantics, 0), semantics,
                Tail(steps))

\* C16: for every envelope, format and sequence of structural calls
\* op1, ..., opk, the builder of query(env, F) after op1(...)...opk(...)
\* holds, and execute() returns, the data and metadata (timestamps aside)
\* of the stand-alone operations op1, ..., opk applied left to right, each
\* to the result of the previous one.
C16_BuilderEqualsStandaloneChain ==
  IsBuilder =>
    IF IsRegistered(registry, builder.query.format)
      THEN LET chain == ApplyAll(message, registry[builder.query.format],
                                 builder.applied)
           IN  /\ Untimed(builder.query.message) = Untimed(chain)
               /\ call.op = "query.execute"
                    => Untimed(call.result) = Untimed(chain)
      ELSE /\ builder.applied = <<>>
           /\ builder.query.message = message

\* execute() after sort and take(1) under the CSV-like format returned an
\* envelope that holds one item, the last of the input in name order
C16_Witness ==
  /\ call.op = "query.execute"
  /\ builder.query.format = FMT_CSV
  /\ builder.applied = <<[op |-> "sort", arg |-> "byNameDesc"],
                         [op |-> "take", arg |-> 1]>>
  /\ Len(ItemsOf(FMT_CSV, message.data)) = 2
  /\ call.result.data.children = <<ItemsOf(FMT_CSV, message.data)[2]>>
  /\ call.result.metadata.processing.operation = "take"

StructuralQueryCalls ==
  {"query.filter", "query.transformItems", "query.sort", "query.take",
   "query.skip"}

\* C17: each structural call on the builder that returns gives back the
\* builder itself and replaces the builder's envelope by the result of the
\* operation on the envelope it held; execute, map, count and groupBy (and
\* a call that fails) leave the envelope and the format of the builder as
\* they were, execute returning that envelope; the format fixed at query()
\* never changes.
C17_BuilderState ==
  [][(IsBuilder /\ call = NoCall /\ call' # NoCall /\ call'.op # "query") =>
       /\ builder'.query.format = builder.query.format
       /\ IF call'.op \in StructuralQueryCalls /\ call'.status = "returned"
            THEN /\ call'.result = "this"
                 /\ Len(builder'.applied) = Len(builder.applied) + 1
                 /\ builder'.query.message
                      = Standalone(builder'.applied[Len(builder'.applied)],
                                   builder.query.message,
                                   registry[builder.query.format], clock)
            ELSE /\ builder' = builder
                 /\ call'.op = "query.execute"
                      => call'.result = builder.query.message]_vars

\* groupBy on a builder for the XML-like format after two structural
\* calls: the groups are those of the envelope the builder holds
C17_Witness ==
  /\ call.op = "query.groupBy"
  /\ call.status = "returned"
  /\ builder.query.format = FMT_XML
  /\ Len(builder.applied) = 2
  /\ builder.applied[2].op = "take"
  /\ Len(ItemsOf(FMT_XML, builder.query.message.data)) = 1
  /\ call.result
       = groupBy(builder.query.message, "byName", registry[FMT_XML])
  /\ Cardinality(DOMAIN call.result) = 1

IsConvertEnvelope == call.op = "transformMessage" /\ call.status = "returned"

\* C18: convertEnvelope(message, S, T) returns an envelope whose data is
\* convert(message.data, S, T), whose context is the context of the input,
\* and whose metadata is the metadata of the input with the provenance
\* record (source format S, target format T, time of the call) under the
\* key "transformation", every entry under another key kept as it was;
\* the input message is the same after the call as before it.
C18_ConvertEnvelopeFrame ==
  IsConvertEnvelope =>
    LET input == call.input
        result == call.result
    IN  /\ DOMAIN result = {"data", "metadata", "context"}
        /\ result.data = transform(input.data, registry[call.sourceFormat],
                                   registry[call.targetFormat])
        /\ result.context = input.context
        /\ DOMAIN result.metadata
             = DOMAIN input.metadata \cup {"transformation"}
        /\ \A k \in DOMAIN input.metadata \ {"transformation"} :
             result.metadata[k] = input.metadata[k]
        /\ result.metadata.transformation
             = [sourceFormat |-> call.sourceFormat,
                targetFormat |-> call.targetFormat,
                transformedAt |-> clock - 1]
        /\ message = input

\* convertEnvelope, json to xml, of an envelope that carries a source
\* record and the provenance record of an earlier conversion, csv to json
C18_Witness ==
  /\ IsConvertEnvelope
  /\ call.sourceFormat = FMT_JSON
  /\ call.targetFormat = FMT_XML
  /\ DOMAIN call.input.metadata = {"source", "transformation"}
  /\ call.input.metadata.transformation.sourceFormat = FMT_CSV
  /\ DOMAIN call.result.metadata = {"source", "transformation"}
  /\ call.result.metadata.source = call.input.metadata.source
  /\ call.result.metadata.transformation.sourceFormat = FMT_JSON
  /\ call.result.context = "ctx"

\* The calls C19 is about: convert, convertEnvelope and the operations
\* that take an envelope
TransformingCalls ==
  {"transform", "transformMessage", "find", "filter", "map",
   "transformItems", "reduce", "sort", "take", "skip", "groupBy"}

\* The value-level result of a returned call on objects
ValueResult ==
  LET input == LoadMessage(call.input.heap, call.input.ref)
      now == clock - 1
  IN  CASE call.op = "transform" ->
             transform(input.data, registry[call.sourceFormat],
                       registry[call.targetFormat])
        [] call.op = "transformMessage" ->
             transformMessage(input, registry[call.sourceFormat],
                              registry[call.targetFormat], now)
        [] call.op = "filter" ->
             filter(input, call.arg, registry[call.format], now)
        [] call.op = "transformItems" ->
             transformItems(input, call.arg, registry[call.format], now)
        [] call.op = "sort" ->
             sort(input, call.arg, registry[call.format], now)
        [] call.op = "take" ->
             take(input, call.arg, registry[call.format], now)
        [] call.op = "skip" ->
             skip(input, call.arg, registry[call.format], now)

\* The envelope or the node tree a returned call on objects returned is
\* the one the operation computes on values
ObjectsAgreeWithValues ==
  (call.op \in EnvelopeCalls \cup {"transform"}
   /\ call.status = "returned") =>
    IF call.op = "transform"
      THEN Load(message.heap, call.result) = ValueResult
      ELSE LoadMessage(message.heap, call.result) = ValueResult

\* C19: after convert and after find, filter, map, transform, reduce, sort,
\* take, skip or groupBy has returned, no object that existed when the call
\* was made has been written, so the input envelope and its node tree read
\* as they did before the call: the same children in the same order, the
\* same names, kinds and values.
C19_InputUnchanged ==
  (call.op \in TransformingCalls /\ call.status = "returned") =>
    /\ \A ref \in 1..Len(call.input.heap) :
         message.heap[ref] = call.input.heap[ref]
    /\ LoadMessage(message.heap, call.input.ref)
         = LoadMessage(call.input.heap, call.input.ref)

\* sort under the CSV-like format returned an envelope whose container
\* and rows are objects made by the call, the rows in the other order,
\* and the container the caller passed still holds its rows as before
C19_Witness ==
  /\ call.op = "sort"
  /\ call.status = "returned"
  /\ call.format = FMT_CSV
  /\ LET before == LoadMessage(call.input.heap, call.input.ref)
         after == LoadMessage(message.heap, call.input.ref)
         result == LoadMessage(message.heap, call.result)
         made == (Len(call.input.heap) + 1)..Len(message.heap)
     IN  /\ Len(before.data.children) = 2
         /\ before.data.children[1] # before.data.children[2]
         /\ result.data.children
              = <<before.data.children[2], before.data.children[1]>>
         /\ after.data.children = before.data.children
         /\ message.heap[call.result].data \in made
         /\ \A i \in 1..2 :
              ElemsOf(message.heap, message.heap[call.result].data,
                      "children")[i] \in made

\* The kind the role->kind table of the target gives the input node with
\* this identifier, whose role is read from the kind->role table of the
\* source
KindUnder(input, sourceSemantics, targetSemantics, id) ==
  MapGetOr(targetSemantics.roleToType,
           SourceRole(input, sourceSemantics, id), VALUE)

\* C20: attribute lists follow the strategy switch of the children, keyed
\* by the attributes strategy of the target format: with Promote (the
\* baseline CSV-like target) every node of an output attribute list has
\* kind Comment, with Demote kind Attributes, with Preserve the kind the
\* role->kind table gives, and with Drop, or for an empty input list, the
\* output node has no attribute list.
C20_AttributeListsFollowChildSwitch ==
  IsConvert =>
    LET source == registry[call.sourceFormat]
        target == registry[call.targetFormat]
        strategy == target.transformationRules.attributes
    IN  \A r \in AllNodes(call.result) :
          /\ HasAttributes(r) =>
               /\ strategy # DROP
               /\ r.attributes # <<>>
               /\ \A i \in 1..Len(r.attributes) :
                    /\ strategy = PROMOTE => r.attributes[i].type = COMMENT
                    /\ strategy = DEMOTE => r.attributes[i].type = ATTRIBUTES
                    /\ strategy = PRESERVE =>
                         r.attributes[i].type
                           = KindUnder(call.input.data, source, target,
                                       r.attributes[i].id)

\* The target record with the attributes strategy replaced by Preserve
PreservingAttributes(semantics) ==
  [semantics EXCEPT !.transformationRules.attributes = PRESERVE]

\* The tree with kind Field given to every member of an attribute list and
\* to every child that stems from an input node of role Metadata
RECURSIVE FieldsForMetadata(_, _, _, _)
FieldsForMetadata(n, input, sourceSemantics, listed) ==
  LET base == IF listed = "attribute"
                   \/ (listed = "child"
                       /\ SourceRole(input, sourceSemantics, n.id)
                            = ROLE_METADATA)
                THEN [n EXCEPT !.type = FIELD] ELSE n
      c == IF HasChildren(n)
             THEN WithChildren(base,
                    [i \in 1..Len(n.children) |->
                       FieldsForMetadata(n.children[i], input,
                                         sourceSemantics, "child")])
             ELSE base
  IN  IF HasAttributes(n)
        THEN WithAttributes(c,
               [i \in 1..Len(n.attributes) |->
                  FieldsForMetadata(n.attributes[i], input,
                                    sourceSemantics, "attribute")])
        ELSE c

\* C21: when the attributes strategy of the target format is Convert (the
\* baseline JSON-like target), every attribute node of the converted tree
\* has kind Field, the members of attribute lists and the children whose
\* role is Metadata alike, and apart from these kinds the tree is the one
\* the same target would give with the Preserve strategy (compared on
\* trees without back-references, whose nodes carry no identifier).
C21_ConvertRetypesAttributeNodes ==
  (IsConvert
   /\ registry[call.targetFormat].transformationRules.attributes = CONVERT)
  =>
    LET source == registry[call.sourceFormat]
        target == registry[call.targetFormat]
    IN  /\ \A n \in AttributeListMembers(call.result) : n.type = FIELD
        /\ \A n \in ChildListMembers(call.result) :
             SourceRole(call.input.data, source, n.id) = ROLE_METADATA
               => n.type = FIELD
        /\ (\A n \in AllNodes(call.input.data) : ~HasParents(n))
             => call.result
             = FieldsForMetadata(
                 transform(call.input.data, source,
                           PreservingAttributes(target)),
                 call.input.data, source, "root")

\* The input node a rebuilt node came from
SourceNode(input, id) == CHOOSE m \in AllNodes(input) : m.id = id

\* name, value, id, namespace and label are those of the source node
CopiesScalars(r, n) ==
  /\ r.name = n.name
  /\ r.value = n.value
  /\ r.id = n.id
  /\ r.ns = n.ns
  /\ r.label = n.label

\* C22 as stated: every rebuilt node has the name, value, id, namespace
\* and label of the node it came from; a kind without an entry in the
\* source table is read as role Value, and a node whose role has no entry
\* in the target's role->kind table has kind Value, or kind Comment or
\* Attributes when the strategy of its role is Promote or Demote.
C22_UnmappedRoleGivesValue ==
  IsConvert =>
    LET source == registry[call.sourceFormat]
        target == registry[call.targetFormat]
    IN  \A r \in AllNodes(call.result) :
          LET role == SourceRole(call.input.data, source, r.id)
              strategy == getTransformationStrategy(role, target)
          IN  /\ CopiesScalars(r, SourceNode(call.input.data, r.id))
              /\ role \notin DOMAIN target.roleToType =>
                   \/ r.type = VALUE
                   \/ strategy = PROMOTE /\ r.type = COMMENT
                   \/ strategy = DEMOTE /\ r.type = ATTRIBUTES

\* C22 amended: every rebuilt node has the name, value, id, namespace and
\* label of the node it came from.  Its role is the source table's entry
\* for its kind, Value when there is none, and its kind is the target
\* table's entry for that role, Value when there is none, except that a
\* child whose strategy is Promote has kind Comment, a child whose strategy
\* is Demote has kind Attributes, and a member of an attribute list has
\* kind Field when the attributes strategy is Convert.
C22_SafeFallbacks ==
  IsConvert =>
    LET source == registry[call.sourceFormat]
        target == registry[call.targetFormat]
        input == call.input.data
        ChildKind(r) ==
          LET strategy ==
                getTransformationStrategy(SourceRole(input, source, r.id),
                                          target)
          IN  CASE strategy = PROMOTE -> COMMENT
                [] strategy = DEMOTE -> ATTRIBUTES
                [] OTHER -> KindUnder(input, source, target, r.id)
        AttributeKind(r) ==
          IF target.transformationRules.attributes = CONVERT
            THEN FIELD ELSE KindUnder(input, source, target, r.id)
    IN  /\ call.result.type
             = KindUnder(input, source, target, call.result.id)
        /\ \A m \in AllNodes(call.result) :
             /\ CopiesScalars(m, SourceNode(input, m.id))
             /\ \A i \in 1..Len(ChildrenOrEmpty(m)) :
                  m.children[i].type = ChildKind(m.children[i])
             /\ \A i \in 1..Len(AttributesOrEmpty(m)) :
                  m.attributes[i].type = AttributeKind(m.attributes[i])

\* A conversion from the CSV-like format, whose table has no entry for
\* the kind Comment, into the JSON-like format, whose table has no entry
\* for the role Metadata: the Comment child is read as a Value and kept,
\* and a member of an attribute list comes out as a Field
C22_Witness ==
  /\ IsConvert
  /\ call.sourceFormat = FMT_CSV
  /\ call.targetFormat = FMT_JSON
  /\ \E n \in ChildListMembers(call.input.data) :
       /\ n.type = COMMENT
       /\ \E r \in ChildListMembers(call.result) :
            r.id = n.id /\ r.type = VALUE /\ r.value = n.value
  /\ \E n \in AttributeListMembers(call.input.data) :
       /\ n.type = ATTRIBUTES
       /\ \E r \in AttributeListMembers(call.result) :
            r.id = n.id /\ r.type = FIELD

\* The step is a call of register
IsRegisterStep == call = NoCall /\ call'.op = "register"

\* The outcome of the lookup, or of supportedFormats, the caller looks at
\* is the one the registry gives
LookupAnswersFromRegistry ==
  /\ call.op = "getSemantics" =>
       IF call.format \in DOMAIN registry
         THEN call.status = "returned" /\ call.result = registry[call.format]
         ELSE call.status = "threw" /\ call.error = "NotRegistered"
  /\ call.op = "getSupportedFormats" =>
       call.status = "returned" /\ call.result = DOMAIN registry

\* C23: register(r) sets the entry for r's identifier to r, adds the
\* identifier to the registered ones and changes no other entry; no other
\* call changes the registry; after every call, lookup(f) returns the
\* entry for f (the record most recently registered under f) and fails if
\* there is none, and supportedFormats() is the set of the identifiers
\* registered so far.
C23_RegistryProtocol ==
  [][/\ IsRegisterStep =>
          /\ DOMAIN registry' = DOMAIN registry \cup {call'.arg.format}
          /\ registry'[call'.arg.format] = call'.arg
          /\ \A f \in DOMAIN registry \ {call'.arg.format} :
               registry'[f] = registry[f]
     /\ ~IsRegisterStep => registry' = registry
     /\ LookupAnswersFromRegistry']_vars

\* With the JSON-like record registered and a second record registered
\* for the identifier "custom", lookup("custom") returned that record
C23_Witness ==
  /\ call.op = "getSemantics"
  /\ call.format = FMT_CUSTOM
  /\ call.status = "returned"
  /\ call.result = ITEMS_SEMANTICS
  /\ DOMAIN registry = {FMT_JSON, FMT_CUSTOM}

\* The node reached from start by one direct child per segment, the first
\* child of that name each time: <<>> from the first segment on that names
\* no child, <<start>> for the empty path
RECURSIVE FollowByName(_, _)
FollowByName(start, path) ==
  IF path = <<>> THEN <<start>>
  ELSE
    LET before == FollowByName(start, SubSeq(path, 1, Len(path) - 1))
        kids == IF before = <<>> THEN <<>> ELSE ChildrenOrEmpty(before[1])
        named == {i \in 1..Len(kids) : kids[i].name = path[Len(path)]}
    IN  IF named = {} THEN <<>>
        ELSE <<kids[CHOOSE i \in named : \A j \in named : i <= j]>>

\* C24: for every registered format, every node and every key or path,
\* extract-value and navigate-path return, with a value or a node of the
\* tree, or absent, and never raise; under the JSON-like format
\* navigate-path follows one direct child per segment by name, is absent
\* from the first segment on that names no child and is the starting node
\* for the empty path.
C24_LookupMissIsAValue ==
  /\ (call.op = "navigatePath" /\ call.format \in DOMAIN registry) =>
       /\ call.status = "returned"
       /\ \/ call.result = <<>>
          \/ /\ Len(call.result) = 1
             /\ \E m \in AllNodes(call.input.data) :
                  call.result[1] \in {m} \cup Range(ChildrenOrEmpty(m))
                                     \cup Range(AttributesOrEmpty(m))
       /\ call.format = FMT_JSON
            => call.result = FollowByName(call.input.data, call.arg)
  /\ (call.op = "extractValue" /\ call.format \in DOMAIN registry) =>
       /\ call.status = "returned"
       /\ \/ call.result = Undefined
          \/ \E n \in Range(ChildrenOrEmpty(call.arg[1]))
                      \cup Range(AttributesOrEmpty(call.arg[1])) :
               n.name = call.arg[2] /\ n.value = call.result

\* Under the JSON-like format a path of three segments reached the field
\* of the first row of the nested collection
C24_Witness ==
  /\ call.op = "navigatePath"
  /\ call.format = FMT_JSON
  /\ call.status = "returned"
  /\ call.arg = <<"list", "row", "name">>
  /\ ~HasAttributes(call.input.data)
  /\ call.result = <<createFNode(FIELD, "name", "Al")>>

\* C25: the item count is the same before and after a conversion of the
\* envelope between the JSON-like and the CSV-like format, each count
\* taken under the format the envelope is in:
\* count(convertEnvelope(e, s, t), t) = count(e, s) for s, t the JSON-like
\* and the CSV-like format in either order.
C25_CountSurvivesConversion ==
  (/\ call.op = "transformMessage"
   /\ call.status = "returned"
   /\ {call.sourceFormat, call.targetFormat} = {FMT_JSON, FMT_CSV})
  => count(call.result, registry[call.targetFormat], Undefined)
       = count(call.input, registry[call.sourceFormat], Undefined)

\* The children of the container that locate-items of the format does not
\* count as items
NonItems(format, data) ==
  {c \in Range(ChildrenOrEmpty(data)) :
     c \notin Range(ItemsOf(format, data))}

\* C26: filter, transform, sort, take and skip return a container whose
\* children list holds the resulting items and nothing else: it has as
\* many members as the operation has resulting items, each of them the
\* resulting item at that place up to its name, and no child of the input
\* container that locate-items does not count as an item is among them.
C26_OnlyItemsRemain ==
  IsStructural =>
    /\ HasChildren(call.result.data)
    /\ Len(call.result.data.children) = Len(NewItems)
    /\ \A i \in 1..Len(NewItems) :
         [call.result.data.children[i] EXCEPT !.name = NewItems[i].name]
           = NewItems[i]
    /\ \A c \in NonItems(call.format, call.input.data) :
         c \notin Range(call.result.data.children)

\* Under the JSON-like format a filter whose predicate holds of every item
\* returned a container without the Field child the input had next to its
\* row
C26_Witness ==
  /\ IsOp("filter")
  /\ call.format = FMT_JSON
  /\ call.arg = "hasName"
  /\ HasChildren(call.input.data)
  /\ call.input.data.children
       = <<Row("Al"), createFNode(FIELD, "row", "x")>>
  /\ call.result.data.children = <<Row("Al")>>

\* The processing record of the envelope the operation returned
Processing == call.result.metadata.processing

\* The item count of an envelope under the format of the call
CountOf(msg) == count(msg, registry[call.format], Undefined)

\* C27: the counts a structural operation reports describe the envelope it
\* returns: after transform the result has as many items as the input and
\* as itemCount says, after filter and take the result has filteredCount
\* and takenCount items, and after skip
\* originalCount = skippedCount + remainingCount.
C27_ReportedCountsDescribeResult ==
  /\ IsOp("transformItems") =>
       /\ CountOf(call.result) = CountOf(call.input)
       /\ CountOf(call.result) = Processing.itemCount
  /\ IsOp("filter") => Processing.filteredCount = CountOf(call.result)
  /\ IsOp("take") => Processing.takenCount = CountOf(call.result)
  /\ IsOp("skip") =>
       Processing.originalCount
         = Processing.skippedCount + Processing.remainingCount

\* How many times cleanup() has called the callback
Invocations(callback) ==
  Cardinality({i \in 1..Len(resources.invoked) :
                 resources.invoked[i] = callback})

\* How many times cleanup() has called adapter.stop()
StopCalls(adapter) ==
  Cardinality({i \in 1..Len(resources.invoked) :
                 /\ "stop" \in DOMAIN resources.invoked[i]
                 /\ resources.invoked[i].stop = adapter})

\* C28: when the one call of cleanup() made on a manager returns, stop()
\* has been called exactly once on every registered adapter that has one
\* and every registered cleanup callback has been called exactly once,
\* whether or not another callback threw, and the manager holds no callback
\* and no adapter - for every sequence of registerAdapter and
\* registerCleanup calls, the same adapter registered more than once and
\* registrations made while cleanup() is awaiting included.
C28_CleanupStopsEachOnce ==
  (resources.last = "cleanup" /\ resources.cleanups = 1) =>
    /\ \A a \in resources.everAdapters : HasStop(a) => StopCalls(a) = 1
    /\ \A fn \in resources.everCallbacks : Invocations([fn |-> fn]) = 1
    /\ resources.callbacks = <<>>
    /\ resources.adapters = {}

\* C29: for every interleaving of register calls at most one call for a
\* name resolves until the name is unregistered, every other call is
\* rejected, with 'already registered' unless its initializer threw, and a
\* rejected call has written nothing to the configuration defaults, the
\* registered formats or the registered methods.
C29_OneRegistrationPerName ==
  /\ \A name \in DOMAIN extensions.succeeded :
       extensions.succeeded[name] <= 1
  /\ \A i \in 1..Len(extensions.tasks) :
       extensions.tasks[i].status = "rejected" =>
         /\ extensions.tasks[i].wrote = {}
         /\ \/ extensions.tasks[i].error = "already registered"
            \/ extensions.tasks[i].extension.initialize = "rejects"

\* The step is a call of merge on pipe i
IsMergeStep(i) ==
  /\ pipeline' # pipeline
  /\ pipeline'.last.op = "merge"
  /\ pipeline'.last.pipe = i

\* Pipe i was branched off a pipe whose own branch is still active
IsNestedBranch(i) ==
  /\ pipeline.pipes[i].origin # 0
  /\ BranchStateIn(pipeline, pipeline.pipes[i].origin) # <<>>

\* The merge of the step returned and was called without hooks
ReturnedWithoutHooks ==
  /\ pipeline'.last.status = "returned"
  /\ pipeline'.last.hooks = NoHooks

\* merge throws 'No active branch to merge' exactly when the message of
\* the pipe carries no branch state, and after a merge without hooks that
\* returned the message of the pipe carries none
MergeNeedsAndEndsBranch(i) ==
  /\ pipeline'.last.status = "threw" <=> BranchStateIn(pipeline, i) = <<>>
  /\ pipeline'.last.status = "threw" =>
       /\ pipeline'.last.error = "No active branch to merge"
       /\ pipeline'.pipes = pipeline.pipes
       /\ pipeline'.contexts = pipeline.contexts
  /\ ReturnedWithoutHooks => BranchStateIn(pipeline', i) = <<>>

\* C30 as stated: merge throws 'No active branch to merge' unless the
\* message of the pipeline carries branch state; after a merge that
\* returned the message carries none, so that a second merge throws; and
\* merging the inner of two nested branches leaves the branch state of the
\* outer one in place.
C30_NestedMergeKeepsOuterState ==
  [][\A i \in 1..Len(pipeline.pipes) :
       IsMergeStep(i) =>
         /\ MergeNeedsAndEndsBranch(i)
         /\ (ReturnedWithoutHooks /\ IsNestedBranch(i)) =>
              BranchStateIn(pipeline', pipeline.pipes[i].origin) # <<>>]_vars

\* C30 amended: merge throws 'No active branch to merge' unless the
\* message of the pipeline carries branch state; after a merge that
\* returned the message carries none, so that a second merge throws; and
\* merging the inner of two nested branches leaves the branch state of the
\* outer one in place exactly when the merged message does not share the
\* context object of the outer branch's message: a strategy that returns
\* the parent message, or a copy of it, clears the outer state as well.
C30_BranchMergeProtocol ==
  [][\A i \in 1..Len(pipeline.pipes) :
       IsMergeStep(i) =>
         /\ MergeNeedsAndEndsBranch(i)
         /\ (ReturnedWithoutHooks /\ IsNestedBranch(i)) =>
              LET outer == pipeline.pipes[i].origin
              IN  BranchStateIn(pipeline', outer) # <<>>
                    <=> pipeline'.pipes[i].message[1].context
                          # pipeline.pipes[outer].message[1].context]_vars

\* The inner of two nested branches was merged with the strategy that
\* returns the parent message: the inner pipe now holds the message of the
\* outer pipe, and that message carries no branch state any more
C30_Witness ==
  /\ Len(pipeline.pipes) = 3
  /\ pipeline.pipes[2].origin = 1
  /\ pipeline.pipes[3].origin = 2
  /\ pipeline.last.op = "merge"
  /\ pipeline.last.pipe = 3
  /\ pipeline.last.arg = "parent"
  /\ pipeline.last.hooks = NoHooks
  /\ pipeline.last.status = "returned"
  /\ pipeline.pipes[3].message = pipeline.pipes[2].message
  /\ pipeline.pipes[2].message # <<>>
  /\ pipeline.pipes[2].message[1].context # pipeline.pipes[2].context
  /\ BranchStateIn(pipeline, 2) = <<>>

====
